---- MODULE Spec2Model ----
(***************************************************************************)
(* Model of the nitox NATS client runtime (src/src/client/*.rs): the       *)
(* subscription multiplexer, the sender and its writer task, the system-   *)
(* stream reactor and the public operations publish / subscribe /          *)
(* unsubscribe / request of NatsClient.                                    *)
(*                                                                         *)
(* Every spawned task (multiplexer, reactor, writer) and every future an   *)
(* application task polls is a process; one action is one step between     *)
(* two points where the multi-threaded runtime may run another task.       *)
(***************************************************************************)
EXTENDS Integers, Sequences, FiniteSets, TLC

(***************************************************************************)
(* Bounds of the model.                                                    *)
(***************************************************************************)
\* number of distinct SIDs the application subscribes with
NumUserSids == 2
\* number of request() calls
MaxReq == 2
\* number of events of the environment: ops the broker sends and calls
\* (connect, publish, subscribe, unsubscribe, request) the application makes
MaxEvents == 4
\* largest payload length and max_msgs the application uses
MaxVal == 2
\* largest max_payload the broker advertises
MaxInfo == 2
\* number of times the broker breaks the connection
MaxReconnects == 2
\* number of distinct items the writer task offers to the sink
NumItems == 2
\* longest subject, sid, reply-to, queue group and error text the codec is given
MaxStrLen == 2
\* longest payload the codec is given
MaxPayloadLen == 2

\* Option<u32>::None (max_count, max_msgs, server_info)
None == -1

UserSids == 1..NumUserSids
\* SubCommand::generate_sid() of request r: a SID no other subscription uses
ReqSid(r) == NumUserSids + r
Reqs == 1..MaxReq
AllSids == 1..(NumUserSids + MaxReq)

\* An Op of protocol/op.rs: kind, and the fields the client looks at.
\*   MSG: sid, id (the payload, unique per MSG);  INFO: n = max_payload;
\*   UNSUB: sid, n = max_msgs;  SUB: sid;  PUB: n = payload length,
\*   sid = SID of the request whose inbox is reply_to (0: no reply_to).
Op(k, s, i, n) == [kind |-> k, sid |-> s, id |-> i, n |-> n]
PING == Op("PING", 0, 0, 0)
PONG == Op("PONG", 0, 0, 0)
OK == Op("OK", 0, 0, 0)
ERR == Op("ERR", 0, 0, 0)
CONNECT == Op("CONNECT", 0, 0, 0)
INFO(x) == Op("INFO", 0, 0, x)
MSG(s, i) == Op("MSG", s, i, 0)
SUB(s) == Op("SUB", s, 0, 0)
UNSUB(s, m) == Op("UNSUB", s, 0, m)
PUB(len, reply) == Op("PUB", reply, 0, len)

\* SubscriptionSink of multiplexer.rs: the channel its tx feeds, max_count, count.
\* ch = 0 stands for "no entry for this SID in subs_tx".
NoSink == [ch |-> 0, max_count |-> None, count |-> 0]
NewSink(c) == [ch |-> c, max_count |-> None, count |-> 0]

VARIABLES
    inbound,      \* ops the socket has decoded and the multiplexer has not read yet
    nIn,          \* number of ops the broker has sent
    subs_tx,      \* NatsClientMultiplexer.subs_tx : SID -> SubscriptionSink
    chans,        \* the mpsc channels made by for_sid, by creation order
    other_q,      \* multiplexer -> reactor channel (other_tx / other_rx)
    pub_q,        \* reactor -> application channel (tmp_other_tx / NatsClient.other_rx)
    pubOut,       \* ops the application has taken from the NatsClient stream
    server_info,  \* NatsClient.server_info (max_payload of it, or None)
    verbose,      \* NatsClient.verbose (opts.connect_command.verbose)
    got_ack,      \* NatsClient.got_ack
    outq,         \* NatsClientSender.tx: the outbound queue
    wire,         \* ops the writer task has handed to the socket sink
    subPending,   \* SIDs whose subscribe() future has sent SUB and was not polled yet
    unsubPending, \* SIDs whose unsubscribe() future (unsub_now) was not polled yet
    req,          \* the request() futures
    calls,        \* number of connect/publish/subscribe/unsubscribe calls made
    ret,          \* what the last publish()/request() call returned
    sentLog,      \* history: every op accepted by NatsClientSender::send, in order
    sysLog,       \* history: every op the multiplexer forwarded to other_tx
    arrived,      \* history: every MSG the multiplexer read, in order
    mux_done,     \* the task of the multiplexer (work_tx) has ended on an error of the stream
    state,        \* NatsConnection.state: the phase of the connection
    inner,        \* NatsConnection.inner: the socket in the slot, by the order sockets were made
    sockets,      \* number of sockets established so far
    failed,       \* history: the sockets on which ServerDisconnected was met
    tasks,        \* the reconnect tasks spawned by reco!, by spawn order
    reco_pc,      \* the handler that is inside reco!, between its two writes of state ("idle": none)
    status,       \* the writer task and the reader task: running, parked or ended
    res,          \* what the last call of each handler of NatsConnection saw and returned
    sends,        \* the futures returned by NatsClientSender::send, by call order
    c_op,         \* the Op given to Encoder::encode (kind "none": not yet)
    c_wire,       \* the bytes encode wrote for it
    c_fed,        \* how many of them the socket has appended to the read buffer
    codec_buf,    \* the read buffer handed to Decoder::decode
    next_index,   \* OpCodec.next_index
    c_dirty,      \* bytes arrived, or a frame was split off, since decode last ran
    c_res,        \* what the last call of decode was given and what it answered
    lock_inner,   \* who holds the write lock of NatsConnection.inner ("free": nobody)
    lock_state,   \* who holds the lock of NatsConnection.state: writer w, readers r
    lpc           \* lock by lock: where each task is inside a handler or in reconnect()

vars == <<inbound, nIn, subs_tx, chans, other_q, pub_q, pubOut, server_info,
          verbose, got_ack, outq, wire, subPending, unsubPending, req, calls,
          ret, sentLog, sysLog, arrived, mux_done,
          state, inner, sockets, failed, tasks, reco_pc, status, res, sends,
          c_op, c_wire, c_fed, codec_buf, next_index, c_dirty, c_res,
          lock_inner, lock_state, lpc>>

\* the variables of the client (client/*.rs)
clientVars == <<inbound, nIn, subs_tx, chans, other_q, pub_q, pubOut, server_info,
                verbose, got_ack, outq, wire, subPending, unsubPending, req, calls,
                ret, sentLog, sysLog, arrived, mux_done>>

\* the variables of the connection (net/connection.rs)
connVars == <<state, inner, sockets, failed, tasks, reco_pc, status, res>>

\* the futures of the sender (client/sender.rs, client/ack_trigger.rs)
ackVars == <<sends>>

\* the variables of the codec (codec.rs)
codecVars == <<c_op, c_wire, c_fed, codec_buf, next_index, c_dirty, c_res>>

\* the two locks of the connection, taken step by step
lockVars == <<lock_inner, lock_state, lpc>>

\* the variables the operations of the client leave alone
extVars == <<connVars, ackVars, codecVars, lockVars>>

\* the variables the connection leaves alone
nonConnVars == <<clientVars, ackVars, codecVars, lockVars>>

\* the variables the codec leaves alone
nonCodecVars == <<clientVars, connVars, ackVars, lockVars>>

\* the variables the steps on the locks leave alone (they write state)
nonLockVars == <<clientVars, ackVars, codecVars,
                 inner, sockets, failed, tasks, reco_pc, status, res>>

\* the variables of the inbound half that the outbound operations leave alone
inVars == <<inbound, nIn, other_q, pub_q, pubOut, sysLog, arrived, mux_done>>

(***************************************************************************)
(* The wire codec (codec.rs, protocol/op.rs and the commands under         *)
(* protocol/).  A byte is a one-character string, or one of TAB, SP, CR,   *)
(* LF, QUOTE; a byte string is a sequence of bytes.  Option<T> is the      *)
(* empty sequence (None) or a sequence of one element (Some).              *)
(***************************************************************************)
TAB == "TAB"
SP == "SP"
CR == "CR"
LF == "LF"
QUOTE == "QUOTE"
CRLF == <<CR, LF>>
NoneOpt == <<>>
Some(x) == <<x>>

\* Rust's s[a..b]: the bytes at offsets a .. b-1, offsets counted from 0
Slice(s, a, b) == SubSeq(s, a + 1, b)

\* Iterator::position over s for membership in set: offset of the first, or -1
Position(s, set) ==
    IF \E i \in 1..Len(s) : s[i] \in set
    THEN (CHOOSE i \in 1..Len(s) : s[i] \in set /\ \A j \in 1..(i - 1) : s[j] \notin set) - 1
    ELSE -1

\* s.windows(2).position(|w| w == b"\r\n"): offset of the first CRLF, or -1
PositionCRLF(s) ==
    IF \E i \in 1..(Len(s) - 1) : s[i] = CR /\ s[i + 1] = LF
    THEN (CHOOSE i \in 1..(Len(s) - 1) :
            /\ s[i] = CR /\ s[i + 1] = LF
            /\ \A j \in 1..(i - 1) : ~(s[j] = CR /\ s[j + 1] = LF)) - 1
    ELSE -1

\* slice::split on the bytes of set: the pieces between them, empty ones kept
RECURSIVE Split(_, _)
Split(s, set) ==
    LET p == Position(s, set)
    IN IF p = -1 THEN <<s>>
       ELSE <<Slice(s, 0, p)>> \o Split(Slice(s, p + 1, Len(s)), set)

\* str::split_whitespace: the pieces between runs of whitespace
SplitWhitespace(s) == SelectSeq(Split(s, {SP, TAB, CR, LF}), LAMBDA x : x # <<>>)

\* usize::to_string and str::parse on decimal digits
DigitChars == <<"0", "1", "2", "3", "4", "5", "6", "7", "8", "9">>
RECURSIVE to_string(_)
to_string(n) ==
    IF n < 10 THEN <<DigitChars[n + 1]>>
    ELSE to_string(n \div 10) \o <<DigitChars[(n % 10) + 1]>>
IsNumber(s) == s # <<>> /\ \A i \in 1..Len(s) : \E d \in 1..10 : DigitChars[d] = s[i]
DigitVal(b) == (CHOOSE d \in 1..10 : DigitChars[d] = b) - 1
RECURSIVE ParseNumber(_)
ParseNumber(s) ==
    IF Len(s) = 1 THEN DigitVal(s[1])
    ELSE 10 * ParseNumber(SubSeq(s, 1, Len(s) - 1)) + DigitVal(s[Len(s)])

\* Command::CMD_NAME of each command, and the names Op matches itself
CMD_NAME ==
    [INFO |-> <<"I", "N", "F", "O">>,
     CONNECT |-> <<"C", "O", "N", "N", "E", "C", "T">>,
     PUB |-> <<"P", "U", "B">>,
     SUB |-> <<"S", "U", "B">>,
     UNSUB |-> <<"U", "N", "S", "U", "B">>,
     MSG |-> <<"M", "S", "G">>,
     PING |-> <<"P", "I", "N", "G">>,
     PONG |-> <<"P", "O", "N", "G">>,
     OK |-> <<"+", "O", "K">>,
     ERR |-> <<"-", "E", "R", "R">>]

\* Op::command_exists
command_exists(name) == \E c \in DOMAIN CMD_NAME : CMD_NAME[c] = name

\* An Op as the codec sees it: the variant and all the fields of its command.
\* n is the body of INFO (max_payload) and of CONNECT (verbose as 0 / 1);
\* text is the String of ServerError.
BlankCmd ==
    [kind |-> "none", subject |-> <<>>, sid |-> <<>>, reply_to |-> NoneOpt,
     queue_group |-> NoneOpt, payload |-> <<>>, max_msgs |-> NoneOpt,
     n |-> 0, text |-> <<>>]
OpINFO(n) == [BlankCmd EXCEPT !.kind = "INFO", !.n = n]
OpCONNECT(n) == [BlankCmd EXCEPT !.kind = "CONNECT", !.n = n]
OpPUB(subject, reply_to, payload) ==
    [BlankCmd EXCEPT !.kind = "PUB", !.subject = subject, !.reply_to = reply_to,
                     !.payload = payload]
OpSUB(subject, queue_group, sid) ==
    [BlankCmd EXCEPT !.kind = "SUB", !.subject = subject,
                     !.queue_group = queue_group, !.sid = sid]
OpUNSUB(sid, max_msgs) == [BlankCmd EXCEPT !.kind = "UNSUB", !.sid = sid, !.max_msgs = max_msgs]
OpMSG(subject, sid, reply_to, payload) ==
    [BlankCmd EXCEPT !.kind = "MSG", !.subject = subject, !.sid = sid,
                     !.reply_to = reply_to, !.payload = payload]
OpPING == [BlankCmd EXCEPT !.kind = "PING"]
OpPONG == [BlankCmd EXCEPT !.kind = "PONG"]
OpOK == [BlankCmd EXCEPT !.kind = "OK"]
OpERR(text) == [BlankCmd EXCEPT !.kind = "ERR", !.text = text]

\* Result<Op, CommandError>
ParseOk(op) == [ok |-> TRUE, op |-> op, err |-> "none"]
ParseErr(e) == [ok |-> FALSE, op |-> BlankCmd, err |-> e]

\* serde_json::to_string / from_slice of the body of INFO and CONNECT: one
\* key and a number, no blank inside; from_slice skips blanks around it
to_json(key, n) == <<"{", key, ":">> \o to_string(n) \o <<"}">>
RECURSIVE TrimLeft(_)
TrimLeft(s) ==
    IF s # <<>> /\ s[1] \in {SP, TAB, CR, LF} THEN TrimLeft(Tail(s)) ELSE s
RECURSIVE TrimRight(_)
TrimRight(s) ==
    IF s # <<>> /\ s[Len(s)] \in {SP, TAB, CR, LF}
    THEN TrimRight(SubSeq(s, 1, Len(s) - 1)) ELSE s
JsonOk(key, s) ==
    LET b == TrimRight(TrimLeft(s))
    IN /\ Len(b) >= 5
       /\ SubSeq(b, 1, 3) = <<"{", key, ":">>
       /\ b[Len(b)] = "}"
       /\ IsNumber(SubSeq(b, 4, Len(b) - 1))
from_json(s) ==
    LET b == TrimRight(TrimLeft(s)) IN ParseNumber(SubSeq(b, 4, Len(b) - 1))

\* ServerInfo::into_vec, ConnectCommand::into_vec
into_vec_info(op) == CMD_NAME.INFO \o <<TAB>> \o to_json("m", op.n) \o CRLF
into_vec_connect(op) == CMD_NAME.CONNECT \o <<TAB>> \o to_json("v", op.n) \o CRLF

\* PubCommand::into_vec
into_vec_pub(op) ==
    CMD_NAME.PUB \o <<TAB>> \o op.subject
        \o (IF op.reply_to # NoneOpt THEN <<TAB>> \o op.reply_to[1] ELSE <<>>)
        \o <<TAB>> \o to_string(Len(op.payload)) \o CRLF \o op.payload \o CRLF

\* SubCommand::into_vec
into_vec_sub(op) ==
    CMD_NAME.SUB \o <<TAB>> \o op.subject
        \o (IF op.queue_group # NoneOpt THEN <<TAB>> \o op.queue_group[1] ELSE <<>>)
        \o <<TAB>> \o op.sid \o CRLF

\* UnsubCommand::into_vec (mm_len > 0 for every Some(max_msgs) of the model)
into_vec_unsub(op) ==
    CMD_NAME.UNSUB \o <<TAB>> \o op.sid
        \o (IF op.max_msgs # NoneOpt THEN <<TAB>> \o to_string(op.max_msgs[1]) ELSE <<>>)
        \o CRLF

\* Message::into_vec
into_vec_msg(op) ==
    CMD_NAME.MSG \o <<TAB>> \o op.subject \o <<TAB>> \o op.sid
        \o (IF op.reply_to # NoneOpt THEN <<TAB>> \o op.reply_to[1] ELSE <<>>)
        \o <<TAB>> \o to_string(Len(op.payload)) \o CRLF \o op.payload \o CRLF

\* impl fmt::Display for ServerError: debug_tuple("ServerError").field(&self.0)
Display(text) ==
    <<"S", "e", "r", "v", "e", "r", "E", "r", "r", "o", "r", "(", QUOTE>>
        \o text \o <<QUOTE, ")">>

\* Op::into_bytes
into_bytes(op) ==
    CASE op.kind = "INFO" -> into_vec_info(op)
      [] op.kind = "CONNECT" -> into_vec_connect(op)
      [] op.kind = "PUB" -> into_vec_pub(op)
      [] op.kind = "SUB" -> into_vec_sub(op)
      [] op.kind = "UNSUB" -> into_vec_unsub(op)
      [] op.kind = "MSG" -> into_vec_msg(op)
      [] op.kind = "PING" -> CMD_NAME.PING \o CRLF
      [] op.kind = "PONG" -> CMD_NAME.PONG \o CRLF
      [] op.kind = "OK" -> CMD_NAME.OK \o CRLF
      [] op.kind = "ERR" -> CMD_NAME.ERR \o <<SP>> \o Display(op.text) \o CRLF

EndsWithCRLF(b) == Len(b) >= 2 /\ Slice(b, Len(b) - 2, Len(b)) = CRLF

\* ServerInfo::try_parse, ConnectCommand::try_parse
try_parse_info(b) ==
    IF ~EndsWithCRLF(b) THEN ParseErr("IncompleteCommandError")
    ELSE IF Slice(b, 0, 4) # CMD_NAME.INFO THEN ParseErr("CommandMalformed")
    ELSE IF ~JsonOk("m", Slice(b, 4, Len(b) - 2)) THEN ParseErr("JsonError")
    ELSE ParseOk(OpINFO(from_json(Slice(b, 4, Len(b) - 2))))
try_parse_connect(b) ==
    IF ~EndsWithCRLF(b) THEN ParseErr("IncompleteCommandError")
    ELSE IF Slice(b, 0, 7) # CMD_NAME.CONNECT THEN ParseErr("CommandMalformed")
    ELSE IF ~JsonOk("v", Slice(b, 7, Len(b) - 2)) THEN ParseErr("JsonError")
    ELSE ParseOk(OpCONNECT(from_json(Slice(b, 7, Len(b) - 2))))

\* PubCommand::try_parse (withSid = FALSE) and Message::try_parse (TRUE):
\* the header is the bytes before the first CR, the payload what lies
\* between the LF after it and the last CRLF
try_parse_payload(b, name, withSid) ==
    IF ~EndsWithCRLF(b) THEN ParseErr("IncompleteCommandError")
    ELSE LET len == Len(b)
             payload_start == Position(Slice(b, 0, len - 2), {CR})
         IN IF payload_start = -1 THEN ParseErr("CommandMalformed")
            ELSE IF b[payload_start + 2] # LF THEN ParseErr("CommandMalformed")
            ELSE LET payload == Slice(b, payload_start + 2, len - 2)
                     f == Split(Slice(b, 0, payload_start), {SP, TAB})
                     k == Len(f)
                     args == IF withSid THEN 2 ELSE 1
                 IN IF f[1] # name THEN ParseErr("CommandMalformed")
                    ELSE IF k < 2 THEN ParseErr("CommandMalformed")
                    ELSE IF ~IsNumber(f[k]) THEN ParseErr("PayloadLengthParseError")
                    ELSE IF Len(payload) # ParseNumber(f[k]) THEN ParseErr("CommandMalformed")
                    ELSE IF k < 2 + args THEN ParseErr("CommandMalformed")
                    ELSE LET reply_to == IF k >= 3 + args THEN Some(f[2 + args]) ELSE NoneOpt
                         IN IF withSid
                            THEN ParseOk(OpMSG(f[2], f[3], reply_to, payload))
                            ELSE ParseOk(OpPUB(f[2], reply_to, payload))
try_parse_pub(b) == try_parse_payload(b, CMD_NAME.PUB, FALSE)
try_parse_msg(b) == try_parse_payload(b, CMD_NAME.MSG, TRUE)

\* SubCommand::try_parse
try_parse_sub(b) ==
    IF ~EndsWithCRLF(b) THEN ParseErr("IncompleteCommandError")
    ELSE LET f == SplitWhitespace(Slice(b, 0, Len(b) - 2))
             k == Len(f)
         IN IF k < 1 THEN ParseErr("CommandMalformed")
            ELSE IF f[1] # CMD_NAME.SUB THEN ParseErr("CommandMalformed")
            ELSE IF k < 3 THEN ParseErr("CommandMalformed")
            ELSE ParseOk(OpSUB(f[2], IF k >= 4 THEN Some(f[3]) ELSE NoneOpt, f[k]))

\* UnsubCommand::try_parse
try_parse_unsub(b) ==
    IF ~EndsWithCRLF(b) THEN ParseErr("IncompleteCommandError")
    ELSE LET f == Split(Slice(b, 0, Len(b) - 2), {SP, TAB})
             k == Len(f)
         IN IF f[1] # CMD_NAME.UNSUB THEN ParseErr("CommandMalformed")
            ELSE IF k < 2 THEN ParseErr("CommandMalformed")
            ELSE IF k >= 3 /\ ~IsNumber(f[3]) THEN ParseErr("PayloadLengthParseError")
            ELSE ParseOk(OpUNSUB(f[2], IF k >= 3 THEN Some(ParseNumber(f[3])) ELSE NoneOpt))

\* the String Op::from_bytes gives ServerError: from_utf8(&buf[1..])
ErrText(b) == Slice(b, 1, Len(b))

\* Op::from_bytes
from_bytes(b, cmd_idx) ==
    LET cmd_name == Slice(b, 0, cmd_idx)
    IN CASE cmd_name = CMD_NAME.INFO -> try_parse_info(b)
         [] cmd_name = CMD_NAME.CONNECT -> try_parse_connect(b)
         [] cmd_name = CMD_NAME.MSG -> try_parse_msg(b)
         [] cmd_name = CMD_NAME.PUB -> try_parse_pub(b)
         [] cmd_name = CMD_NAME.SUB -> try_parse_sub(b)
         [] cmd_name = CMD_NAME.UNSUB -> try_parse_unsub(b)
         [] cmd_name = CMD_NAME.PING ->
                IF b = CMD_NAME.PING \o CRLF THEN ParseOk(OpPING)
                ELSE ParseErr("IncompleteCommandError")
         [] cmd_name = CMD_NAME.PONG ->
                IF b = CMD_NAME.PONG \o CRLF THEN ParseOk(OpPONG)
                ELSE ParseErr("IncompleteCommandError")
         [] cmd_name = CMD_NAME.OK ->
                IF b = CMD_NAME.OK \o CRLF THEN ParseOk(OpOK)
                ELSE ParseErr("IncompleteCommandError")
         [] cmd_name = CMD_NAME.ERR ->
                IF EndsWithCRLF(b) THEN ParseOk(OpERR(ErrText(b)))
                ELSE ParseErr("IncompleteCommandError")
         [] OTHER ->
                IF Len(b) > 7 THEN ParseErr("CommandNotFoundOrSupported")
                ELSE ParseErr("IncompleteCommandError")

\* what a call of OpCodec::decode leaves: the answer (NeedMore is Ok(None)),
\* the buffer and the cursor
Decoded(kind, op, err, b, idx) ==
    [kind |-> kind, op |-> op, err |-> err, buf |-> b, next_index |-> idx]
NeedMore(b, idx) == Decoded("NeedMore", BlankCmd, "none", b, idx)

\* decode, PUB and MSG: the offset of the second CRLF, looked for from the
\* end of the header line (-1: not there yet)
PayloadEnd(b, end_buf_pos) == PositionCRLF(Slice(b, end_buf_pos, Len(b)))

\* mutant: the cursor is left where it was when a frame is split off
keep_index(idx) == idx

\* self.next_index = 0 after buf.split_to(end_buf_pos)
reset_index(idx) == 0

\* OpCodec::decode
decode(b, idx) ==
    IF b = <<>> THEN NeedMore(b, idx)
    ELSE LET command_offset == Position(Slice(b, idx, Len(b)), {SP, TAB, CR})
         IN IF command_offset = -1 THEN NeedMore(b, Len(b))
            ELSE LET command_end == idx + command_offset
                     name == Slice(b, 0, command_end)
                 IN IF ~command_exists(name) THEN NeedMore(b, idx)
                    ELSE LET command_body_offset ==
                                 PositionCRLF(Slice(b, command_end, Len(b)))
                             header_end == command_end + command_body_offset + 2
                             new_end ==
                                 IF name \in {CMD_NAME.PUB, CMD_NAME.MSG}
                                 THEN PayloadEnd(b, header_end) ELSE -2
                             end_buf_pos ==
                                 IF new_end = -2 THEN header_end
                                 ELSE header_end + new_end + 2
                         IN IF command_body_offset = -1 THEN NeedMore(b, idx)
                            ELSE IF new_end = -1 THEN NeedMore(b, idx)
                            ELSE LET cmd_buf == Slice(b, 0, end_buf_pos)
                                     rest == Slice(b, end_buf_pos, Len(b))
                                     r == from_bytes(cmd_buf, command_end)
                                 IN IF r.ok
                                    THEN Decoded("Op", r.op, "none", rest, reset_index(idx))
                                    ELSE Decoded("Err", BlankCmd, r.err, rest,
                                                 reset_index(idx))

\* the commands given to the encoder: strings without blanks, payloads of
\* any bytes
Strs == UNION {[1..k -> {"a"}] : k \in 0..MaxStrLen}
Payloads == UNION {[1..k -> {"x", CR, LF}] : k \in 0..MaxPayloadLen}
OptStrs == {NoneOpt} \cup {Some(x) : x \in Strs}
CodecNums == {0, 1, 12}
CodecOps ==
    {OpINFO(v) : v \in CodecNums} \cup {OpCONNECT(v) : v \in {0, 1}}
        \cup {OpPUB(x, r, p) : x \in Strs, r \in OptStrs, p \in Payloads}
        \cup {OpSUB(x, q, i) : x \in Strs, q \in OptStrs, i \in Strs}
        \cup {OpUNSUB(i, m) : i \in Strs, m \in {NoneOpt} \cup {Some(v) : v \in CodecNums}}
        \cup {OpMSG(x, i, r, p) : x \in Strs, i \in Strs, r \in OptStrs, p \in Payloads}
        \cup {OpPING, OpPONG, OpOK}
        \cup {OpERR(x) : x \in Strs}

\* what c_res holds: the buffer and the cursor decode was called with, and
\* its answer
NoDecode == [kind |-> "none", op |-> BlankCmd, err |-> "none", input |-> <<>>, start |-> 0]

\* OpCodec::default(): next_index 0; the buffers are empty
InitCodec ==
    /\ c_op = BlankCmd
    /\ c_wire = <<>>
    /\ c_fed = 0
    /\ codec_buf = <<>>
    /\ next_index = 0
    /\ c_dirty = FALSE
    /\ c_res = NoDecode

\* the handlers of impl Sink / impl Stream for NatsConnection, and the tasks
\* that call them: the writer task of the sender polls the sink half, the
\* task of the multiplexer polls the stream half
Handlers == {"start_send", "poll_complete", "poll"}
Tasks == {"writer", "reader"}
TaskOf(h) == IF h = "poll" THEN "reader" ELSE "writer"

\* what a call of a handler saw and returned: phase = the state it read,
\* touched = it called the inner stream, gen = the socket that was (0: none),
\* io = what the inner stream answered,
\* ret = what the caller got ("reco": the handler is inside reco!),
\* offered / item = the item given to start_send and the item handed back
Result(phase, touched, gen, io, r, offered, item) ==
    [phase |-> phase, touched |-> touched, gen |-> gen, io |-> io, ret |-> r,
     offered |-> offered, item |-> item]
NoResult == Result("none", FALSE, 0, "none", "none", 0, 0)

\* a connection just made by connect / connect_tls: Connected, first socket
InitConn ==
    /\ state = "Connected"
    /\ inner = 1
    /\ sockets = 1
    /\ failed = {}
    /\ tasks = <<>>
    /\ reco_pc = "idle"
    /\ status = [t \in Tasks |-> "run"]
    /\ res = [h \in Handlers |-> NoResult]

\* the reconnect tasks reco! can spawn, by name
RecoTasks == {"reco" \o ToString(i) : i \in 1..MaxReconnects}
LockProcs == Tasks \cup RecoTasks

\* both locks free, the two tasks outside the handlers, nothing spawned
InitLock ==
    /\ lock_inner = "free"
    /\ lock_state = [w |-> "free", r |-> {}]
    /\ lpc = [p \in LockProcs |-> IF p \in Tasks THEN "idle" ELSE "unspawned"]

Init ==
    /\ inbound = <<>>
    /\ nIn = 0
    /\ subs_tx = [s \in AllSids |-> NoSink]
    /\ chans = <<>>
    /\ other_q = <<>>
    /\ pub_q = <<>>
    /\ pubOut = <<>>
    /\ server_info = None
    /\ verbose \in BOOLEAN
    /\ got_ack = FALSE
    /\ outq = <<>>
    /\ wire = <<>>
    /\ subPending = {}
    /\ unsubPending = {}
    /\ req = [r \in Reqs |-> [pc |-> "idle", ch |-> 0, len |-> 0, result |-> 0]]
    /\ calls = 0
    /\ ret = [op |-> "none", len |-> 0, err |-> "none", val |-> 0]
    /\ sentLog = <<>>
    /\ sysLog = <<>>
    /\ arrived = <<>>
    /\ mux_done = FALSE
    /\ InitConn
    /\ sends = <<>>
    /\ InitCodec
    /\ InitLock

(***************************************************************************)
(* Helpers.                                                                *)
(***************************************************************************)
\* the events of the environment so far; CanAct bounds them
Events == nIn + calls + Cardinality({r \in Reqs : req[r].pc # "idle"})
CanAct == Events < MaxEvents

\* SubscriptionSink.tx has no clone outside subs_tx: channel c is closed
\* (all senders dropped) when no entry of the table feeds it.
Closed(tbl, c) == \A s \in AllSids : tbl[s].ch # c

\* the channel and stream made by for_sid: sid and kind of the consumer
\* ("sub": the stream subscribe returns, "req": the take(1) of request),
\* buf = messages queued, recv = messages the consumer has been given,
\* end = how the consumer's stream finished (Open while it has not).
\* History fields: capN = the max_msgs last recorded for this stream by
\* unsubscribe, capPre = messages that had arrived on it by then,
\* reached = the max_count at which the stream's closure removed the sink.
Open == [err |-> "open", val |-> 0]
NewChan(s, k) ==
    [sid |-> s, kind |-> k, buf |-> <<>>, recv |-> <<>>, end |-> Open,
     capN |-> None, capPre |-> 0, reached |-> None]

\* the receiver of the outbound queue is gone: the writer task, which owns
\* it, has ended
sender_broken == status["writer"] = "ended"

\* NatsClientSender::send, verbose == false: unbounded_send(op) at call time;
\* it fails, and queues nothing, when the receiver is gone
Send(q, op) == IF sender_broken THEN q ELSE Append(q, op)

\* what a call returns whose send failed
Failed(name, len) == [op |-> name, len |-> len, err |-> "InnerBrokenChain", val |-> 0]

\* mutant: for_sid leaves a sink that is already in the table where it is
for_sidKeepOld(tbl, sid, c) ==
    IF tbl[sid].ch # 0 THEN tbl ELSE [tbl EXCEPT ![sid] = NewSink(c)]

\* NatsClientMultiplexer::for_sid: the table after insert(sid, sink on channel c)
for_sid(tbl, sid, c) == [tbl EXCEPT ![sid] = NewSink(c)]

\* mutant: remove_sid leaves the entry in the table
remove_sidKeep(tbl, sid) == tbl

\* NatsClientMultiplexer::remove_sid
remove_sid(tbl, sid) == [tbl EXCEPT ![sid] = NoSink]

\* mutant: a payload of exactly max_payload bytes is refused too
PayloadOverflowGe(len, info) == info # None /\ len >= info

\* publish / request: payload.len() > server_info.max_payload, if server_info is known
PayloadOverflow(len, info) == info # None /\ len > info

(***************************************************************************)
(* The broker: any op may arrive on the inbound stream.  A MSG carries a   *)
(* SID of the application or of a request already made, and a payload      *)
(* (id) of its own.                                                        *)
(***************************************************************************)
KnownSids == UserSids \cup {ReqSid(r) : r \in {x \in Reqs : req[x].pc \notin {"idle", "failed"}}}

MsgOps == {MSG(s, nIn + 1) : s \in KnownSids}
SysOps == {PING, OK, ERR} \cup {INFO(x) : x \in 1..MaxInfo}

BrokerSend(op) ==
    /\ CanAct
    /\ inbound' = Append(inbound, op)
    /\ nIn' = nIn + 1
    /\ UNCHANGED <<mux_done, subs_tx, chans, other_q, pub_q, pubOut, server_info, verbose,
                   got_ack, outq, wire, subPending, unsubPending, req, calls,
                   ret, sentLog, sysLog, arrived>>
    /\ UNCHANGED extVars

(***************************************************************************)
(* The multiplexer task (NatsClientMultiplexer::new, work_tx).             *)
(***************************************************************************)
\* mutant: the message goes to every registered sink
MuxDeliverAll(chs, tbl, m) ==
    [c \in 1..Len(chs) |->
        IF ~Closed(tbl, c) THEN [chs[c] EXCEPT !.buf = Append(@, m)] ELSE chs[c]]

\* mutant: the message is put in front of the queued ones
MuxDeliverFront(chs, tbl, m) ==
    IF tbl[m.sid].ch # 0
    THEN [chs EXCEPT ![tbl[m.sid].ch].buf = <<m>> \o @]
    ELSE chs

\* s.tx.unbounded_send(msg) on the sink found under msg.sid, if there is one;
\* the send fails, and its result is ignored, when the receiver was dropped
MuxDeliver(chs, tbl, m) ==
    IF tbl[m.sid].ch # 0 /\ chs[tbl[m.sid].ch].end.err # "dropped"
    THEN [chs EXCEPT ![tbl[m.sid].ch].buf = Append(@, m)]
    ELSE chs

\* a complete frame that failed to parse: Framed yields the error of decode
\* in place of an op
FrameError == Op("FrameError", 0, 0, 0)

\* what for_each(..).map_err(|_| ()) puts on the system channel when the
\* stream yields an error: nothing, the error is discarded
MuxOnError(q, op) == q

MuxStep ==
    /\ ~mux_done
    /\ inbound # <<>>
    /\ LET op == Head(inbound) IN
        /\ inbound' = Tail(inbound)
        /\ mux_done' = (op.kind = "FrameError")
        /\ IF op.kind = "FrameError"
           THEN /\ other_q' = MuxOnError(other_q, op)
                /\ UNCHANGED <<chans, arrived, sysLog>>
           ELSE IF op.kind = "MSG"
           THEN /\ chans' = MuxDeliver(chans, subs_tx, op)
                /\ arrived' = Append(arrived, op)
                /\ UNCHANGED <<other_q, sysLog>>
           ELSE /\ other_q' = Append(other_q, op)
                /\ sysLog' = Append(sysLog, op)
                /\ UNCHANGED <<chans, arrived>>
    /\ UNCHANGED <<nIn, subs_tx, pub_q, pubOut, server_info, verbose, got_ack,
                   outq, wire, subPending, unsubPending, req, calls, ret, sentLog>>
    /\ UNCHANGED extVars

(***************************************************************************)
(* The system-stream reactor (from_options, other_rx.for_each).            *)
(***************************************************************************)
\* mutant: no reply to PING
ReactorReplyNone(op) == <<>>

\* what the reactor sends back for op: PONG for a PING
ReactorReply(op) == IF op.kind = "PING" THEN <<PONG>> ELSE <<>>

\* mutant: PING is answered but not re-emitted
ReactorEmitNoPing(op) == IF op.kind \in {"INFO", "OK", "PING"} THEN <<>> ELSE <<op>>

\* what the reactor puts on tmp_other_tx for op: all but INFO and OK
ReactorEmit(op) == IF op.kind \in {"INFO", "OK"} THEN <<>> ELSE <<op>>

\* mutant: only the first INFO is stored
StoreInfoFirst(info, op) == IF op.kind = "INFO" /\ info = None THEN op.n ELSE info

\* *server_info_arc.write() = Some(server_info): the stored value after op
StoreInfo(info, op) == IF op.kind = "INFO" THEN op.n ELSE info

\* the future of a send just called by who: queued, or failed at once;
\* acks = the +OK processed so far
SendFuture(who, acks) ==
    [pc |-> IF sender_broken THEN "failed" ELSE "queued", by |-> who,
     acks |-> acks, doneAcks |-> None]

\* the +OK among the first n ops the multiplexer forwarded
OksAmong(n) == Cardinality({i \in 1..n : sysLog[i] = OK})

\* tokio_executor::spawn(tx_inner.send(Op::PONG)...): the future of the
\* send the reactor makes for a PING, spawned as a task of its own
ReactorSends(op) ==
    IF op.kind = "PING"
    THEN <<SendFuture("reactor", OksAmong(Len(sysLog) - Len(other_q)))>>
    ELSE <<>>

ReactorStep ==
    /\ other_q # <<>>
    /\ LET op == Head(other_q) IN
        /\ other_q' = Tail(other_q)
        /\ outq' = IF sender_broken THEN outq ELSE outq \o ReactorReply(op)
        /\ sentLog' = IF sender_broken THEN sentLog ELSE sentLog \o ReactorReply(op)
        /\ pub_q' = pub_q \o ReactorEmit(op)
        /\ server_info' = StoreInfo(server_info, op)
        /\ got_ack' = IF op.kind = "OK" /\ verbose THEN TRUE ELSE got_ack
        /\ sends' = sends \o ReactorSends(op)
    /\ UNCHANGED <<mux_done, inbound, nIn, subs_tx, chans, pubOut, verbose, wire,
                   subPending, unsubPending, req, calls, ret, sysLog, arrived>>
    /\ UNCHANGED <<connVars, codecVars, lockVars>>

\* impl Stream for NatsClient: the application takes an op from other_rx
PublicPoll ==
    /\ pub_q # <<>>
    /\ pubOut' = Append(pubOut, Head(pub_q))
    /\ pub_q' = Tail(pub_q)
    /\ UNCHANGED <<mux_done, inbound, nIn, subs_tx, chans, other_q, server_info, verbose,
                   got_ack, outq, wire, subPending, unsubPending, req, calls,
                   ret, sentLog, sysLog, arrived>>
    /\ UNCHANGED extVars

(***************************************************************************)
(* The writer task (NatsClientSender::new, sink.send_all(rx)).             *)
(***************************************************************************)
\* mutant: the writer takes the newest item
WriterTakeLast(q) == q[Len(q)]

\* the item send_all takes from rx, and what stays queued
WriterTake(q) == Head(q)
WriterRest(q) == Tail(q)

WriterStep ==
    /\ ~sender_broken
    /\ outq # <<>>
    /\ wire' = Append(wire, WriterTake(outq))
    /\ outq' = WriterRest(outq)
    /\ UNCHANGED <<mux_done, inbound, nIn, subs_tx, chans, other_q, pub_q, pubOut,
                   server_info, verbose, got_ack, subPending, unsubPending, req,
                   calls, ret, sentLog, sysLog, arrived>>
    /\ UNCHANGED extVars

(***************************************************************************)
(* NatsClient::connect and NatsClient::publish.                            *)
(***************************************************************************)
\* mutant: connect sends the default options, not the configured ones
connect_commandDefault == CONNECT

\* self.opts.connect_command: of the options only verbose is looked at (n)
connect_command == Op("CONNECT", 0, 0, IF verbose THEN 1 ELSE 0)

Connect ==
    /\ CanAct
    /\ calls' = calls + 1
    /\ outq' = Send(outq, connect_command)
    /\ sentLog' = Send(sentLog, connect_command)
    /\ ret' = IF sender_broken THEN Failed("connect", 0) ELSE ret
    /\ UNCHANGED <<subs_tx, chans, server_info, verbose, got_ack, wire,
                   subPending, unsubPending, req>>
    /\ UNCHANGED inVars
    /\ UNCHANGED extVars

\* what a call with payload length len returns when max_payload is info
CallResult(len, info) ==
    IF PayloadOverflow(len, info)
    THEN [err |-> "MaxPayloadOverflow", val |-> info]
    ELSE [err |-> "ok", val |-> 0]

Returned(name, len, info) ==
    [op |-> name, len |-> len,
     err |-> CallResult(len, info).err, val |-> CallResult(len, info).val]

Publish(len) ==
    /\ CanAct
    /\ calls' = calls + 1
    /\ ret' = IF ~PayloadOverflow(len, server_info) /\ sender_broken
              THEN Failed("publish", len)
              ELSE Returned("publish", len, server_info)
    /\ IF PayloadOverflow(len, server_info)
       THEN UNCHANGED <<outq, sentLog>>
       ELSE /\ outq' = Send(outq, PUB(len, 0))
            /\ sentLog' = Send(sentLog, PUB(len, 0))
    /\ UNCHANGED <<subs_tx, chans, server_info, verbose, got_ack, wire,
                   subPending, unsubPending, req>>
    /\ UNCHANGED inVars
    /\ UNCHANGED extVars

(***************************************************************************)
(* NatsClient::subscribe: SUB is sent when subscribe is called; the sink   *)
(* is registered (for_sid) when the returned future is polled.             *)
(***************************************************************************)
\* SIDs are taken in order: the first subscription uses SID 1, and so on
Subscribed(s) == \E i \in 1..Len(sentLog) : sentLog[i] = SUB(s)

SubscribeCall(s) ==
    /\ CanAct
    /\ s \notin subPending
    /\ \A x \in UserSids : x < s => Subscribed(x)
    /\ calls' = calls + 1
    /\ outq' = Send(outq, SUB(s))
    /\ sentLog' = Send(sentLog, SUB(s))
    /\ subPending' = IF sender_broken THEN subPending ELSE subPending \cup {s}
    /\ ret' = IF sender_broken THEN Failed("subscribe", 0) ELSE ret
    /\ UNCHANGED <<subs_tx, chans, server_info, verbose, got_ack, wire,
                   unsubPending, req>>
    /\ UNCHANGED inVars
    /\ UNCHANGED extVars

SubscribePoll(s) ==
    /\ s \in subPending
    /\ subPending' = subPending \ {s}
    /\ chans' = Append(chans, NewChan(s, "sub"))
    /\ subs_tx' = for_sid(subs_tx, s, Len(chans) + 1)
    /\ UNCHANGED <<server_info, verbose, got_ack, outq, wire, unsubPending,
                   req, calls, ret, sentLog>>
    /\ UNCHANGED inVars
    /\ UNCHANGED extVars

\* the closure subscribe chains on the stream, run on every message polled:
\* the table after it (count += 1 if max_count is set; entry removed at the cap)
OnMessage(tbl, sid) ==
    LET s == tbl[sid] IN
    IF s.ch # 0 /\ s.max_count # None
    THEN IF s.count + 1 >= s.max_count
         THEN [tbl EXCEPT ![sid] = NoSink]
         ELSE [tbl EXCEPT ![sid].count = @ + 1]
    ELSE tbl

\* the max_count at which the closure removes the entry of sid, None if it does not
CapHit(tbl, sid) ==
    LET s == tbl[sid] IN
    IF s.ch # 0 /\ s.max_count # None /\ s.count + 1 >= s.max_count
    THEN s.max_count
    ELSE None

\* how the subscription stream finishes once its channel is closed and empty:
\* rx yields None and and_then passes it on, whatever cap was reached
StreamEnd(reached) == [err |-> "Ok", val |-> 0]

\* the consumer polls the stream subscribe returned for channel c
StreamPoll(c) ==
    /\ c \in 1..Len(chans)
    /\ chans[c].kind = "sub"
    /\ chans[c].end = Open
    /\ IF chans[c].buf # <<>>
       THEN /\ subs_tx' = OnMessage(subs_tx, chans[c].sid)
            /\ chans' = [chans EXCEPT ![c].buf = Tail(@),
                                      ![c].recv = Append(@, Head(chans[c].buf)),
                                      ![c].reached =
                                          IF CapHit(subs_tx, chans[c].sid) # None
                                             /\ subs_tx[chans[c].sid].ch = c
                                          THEN CapHit(subs_tx, chans[c].sid)
                                          ELSE @]
       ELSE /\ Closed(subs_tx, c)
            /\ chans' = [chans EXCEPT ![c].end = StreamEnd(chans[c].reached)]
            /\ UNCHANGED subs_tx
    /\ UNCHANGED <<server_info, verbose, got_ack, outq, wire, subPending,
                   unsubPending, req, calls, ret, sentLog>>
    /\ UNCHANGED inVars
    /\ UNCHANGED extVars

\* the consumer drops the stream subscribe returned for channel c: the
\* receiver of the channel and the closure go; no code runs on the drop
StreamDrop(c) ==
    /\ c \in 1..Len(chans)
    /\ chans[c].kind = "sub"
    /\ chans[c].end = Open
    /\ chans' = [chans EXCEPT ![c].end = [err |-> "dropped", val |-> 0]]
    /\ UNCHANGED <<subs_tx, server_info, verbose, got_ack, outq, wire, subPending,
                   unsubPending, req, calls, ret, sentLog>>
    /\ UNCHANGED inVars
    /\ UNCHANGED extVars

(***************************************************************************)
(* NatsClient::unsubscribe: max_count is recorded and UNSUB is sent when   *)
(* unsubscribe is called; remove_sid runs when the future is polled and    *)
(* unsub_now is true.                                                      *)
(***************************************************************************)
\* unsub_now after the first lines of unsubscribe
UnsubNow(tbl, sid, max) == ~(max # None /\ tbl[sid].ch # 0)

UnsubscribeCall(s, max) ==
    /\ CanAct
    /\ s \notin unsubPending
    /\ calls' = calls + 1
    /\ IF UnsubNow(subs_tx, s, max)
       THEN /\ unsubPending' = IF sender_broken THEN unsubPending ELSE unsubPending \cup {s}
            /\ UNCHANGED <<subs_tx, chans>>
       ELSE /\ subs_tx' = [subs_tx EXCEPT ![s].max_count = max]
            /\ chans' = [chans EXCEPT
                    ![subs_tx[s].ch].capN = max,
                    ![subs_tx[s].ch].capPre =
                        Len(chans[subs_tx[s].ch].buf) + Len(chans[subs_tx[s].ch].recv)]
            /\ UNCHANGED unsubPending
    /\ outq' = Send(outq, UNSUB(s, max))
    /\ sentLog' = Send(sentLog, UNSUB(s, max))
    /\ ret' = IF sender_broken THEN Failed("unsubscribe", 0) ELSE ret
    /\ UNCHANGED <<server_info, verbose, got_ack, wire, subPending, req>>
    /\ UNCHANGED inVars
    /\ UNCHANGED extVars

UnsubscribePoll(s) ==
    /\ s \in unsubPending
    /\ unsubPending' = unsubPending \ {s}
    /\ subs_tx' = remove_sid(subs_tx, s)
    /\ UNCHANGED <<chans, server_info, verbose, got_ack, outq, wire, subPending,
                   req, calls, ret, sentLog>>
    /\ UNCHANGED inVars
    /\ UNCHANGED extVars

(***************************************************************************)
(* NatsClient::request.  The call checks the payload, generates inbox and  *)
(* SID, registers the sink (for_sid) and sends SUB; polling the returned   *)
(* future sends UNSUB(sid, 1), then PUB, then waits for the first message  *)
(* of the stream and removes the SID.                                      *)
(***************************************************************************)
\* mutant: request does not register its stream before it sends
RequestRegisterLate(tbl, sid, c) == tbl

\* the table once request has built its stream for sid on channel c
RequestRegister(tbl, sid, c) == for_sid(tbl, sid, c)

RequestCall(r, len) ==
    /\ CanAct
    /\ req[r].pc = "idle"
    /\ \A x \in Reqs : x < r => req[x].pc # "idle"
    /\ ret' = IF ~PayloadOverflow(len, server_info) /\ sender_broken
              THEN Failed("request", len)
              ELSE Returned("request", len, server_info)
    /\ IF PayloadOverflow(len, server_info)
       THEN /\ req' = [req EXCEPT ![r].pc = "failed", ![r].len = len]
            /\ UNCHANGED <<subs_tx, chans>>
       ELSE /\ req' = [req EXCEPT ![r].pc = IF sender_broken THEN "broken" ELSE "registered",
                                  ![r].len = len,
                                  ![r].ch = Len(chans) + 1]
            /\ chans' = Append(chans, NewChan(ReqSid(r), "req"))
            /\ subs_tx' = RequestRegister(subs_tx, ReqSid(r), Len(chans) + 1)
    /\ UNCHANGED <<server_info, verbose, got_ack, outq, wire, subPending,
                   unsubPending, calls, sentLog>>
    /\ UNCHANGED inVars
    /\ UNCHANGED extVars

\* mutant: PUB is sent first, SUB last
RequestCommandPubFirst(r, pc) ==
    CASE pc = "registered" -> PUB(req[r].len, ReqSid(r))
      [] pc = "sub" -> UNSUB(ReqSid(r), 1)
      [] pc = "unsub" -> SUB(ReqSid(r))

\* the command request sends at each point of its chain of sends
RequestCommand(r, pc) ==
    CASE pc = "registered" -> SUB(ReqSid(r))
      [] pc = "sub" -> UNSUB(ReqSid(r), 1)
      [] pc = "unsub" -> PUB(req[r].len, ReqSid(r))

RequestNextPc(pc) ==
    CASE pc = "registered" -> "sub"
      [] pc = "sub" -> "unsub"
      [] pc = "unsub" -> "pub"

RequestSend(r) ==
    /\ req[r].pc \in {"registered", "sub", "unsub"}
    /\ outq' = Send(outq, RequestCommand(r, req[r].pc))
    /\ sentLog' = Send(sentLog, RequestCommand(r, req[r].pc))
    /\ req' = [req EXCEPT ![r].pc = IF sender_broken THEN "broken" ELSE RequestNextPc(req[r].pc)]
    /\ ret' = IF sender_broken THEN Failed("request", req[r].len) ELSE ret
    /\ UNCHANGED <<subs_tx, chans, server_info, verbose, got_ack, wire,
                   subPending, unsubPending, calls>>
    /\ UNCHANGED inVars
    /\ UNCHANGED extVars

\* the message take(1).into_future() yields from the queued messages
RequestTake(buf) == Head(buf)

\* the future polls its stream: the first message completes it and removes the
\* SID; a stream that ended without a message makes unwrap() panic
RequestPoll(r) ==
    /\ req[r].pc = "pub"
    /\ LET c == req[r].ch IN
       IF chans[c].buf # <<>>
       THEN /\ req' = [req EXCEPT ![r].pc = "done",
                                  ![r].result = RequestTake(chans[c].buf).id]
            /\ chans' = [chans EXCEPT ![c].buf = Tail(@),
                                      ![c].recv = Append(@, RequestTake(chans[c].buf)),
                                      ![c].end = [err |-> "taken", val |-> 0]]
            /\ subs_tx' = remove_sid(subs_tx, ReqSid(r))
       ELSE /\ Closed(subs_tx, c)
            /\ req' = [req EXCEPT ![r].pc = "panic"]
            /\ UNCHANGED <<subs_tx, chans>>
    /\ UNCHANGED <<server_info, verbose, got_ack, outq, wire, subPending,
                   unsubPending, calls, ret, sentLog>>
    /\ UNCHANGED inVars
    /\ UNCHANGED extVars

\* the application drops the future request returned before it has
\* completed: the receiver of the inbox channel goes with it; no code runs
\* on the drop
RequestDrop(r) ==
    /\ req[r].pc \in {"registered", "sub", "unsub", "pub"}
    /\ req' = [req EXCEPT ![r].pc = "cancelled"]
    /\ chans' = [chans EXCEPT ![req[r].ch].end = [err |-> "dropped", val |-> 0]]
    /\ UNCHANGED <<subs_tx, server_info, verbose, got_ack, outq, wire, subPending,
                   unsubPending, calls, ret, sentLog>>
    /\ UNCHANGED inVars
    /\ UNCHANGED extVars

(***************************************************************************)
(* The connection (net/connection.rs).  The sink half and the stream half  *)
(* of one NatsConnection are polled by two tasks, one at a time (the       *)
(* handlers take &mut self); the reconnect task spawned by reco! runs      *)
(* beside them and writes inner and state through its own Arc clones.      *)
(* No handler and no step of the reconnect task notifies a task, so a      *)
(* task that was answered NotReady by the connection itself stays parked   *)
(* until something else wakes it.                                          *)
(***************************************************************************)
\* kinds of io::Error the socket under the framed stream can report
IoErrorKinds == {"ConnectionReset", "ConnectionRefused", "BrokenPipe", "TimedOut"}

\* impl From<io::Error> for NatsError, by err.kind()
from_io_error(kind) ==
    IF kind \in {"ConnectionReset", "ConnectionRefused"}
    THEN "ServerDisconnected"
    ELSE "IOError"

\* the answers of the inner framed stream to start_send / poll_complete / poll:
\* an error of the socket reaches the connection converted
IoResults == {"Ready", "NotReady"} \cup {from_io_error(k) : k \in IoErrorKinds}

\* the items the writer task offers to start_send
Items == 1..NumItems

\* mutant: only the phase Disconnected keeps a caller off the inner stream
NotConnectedOnlyDisconnected(st) == st = "Disconnected"

\* the test at the head of each handler: *state != NatsConnectionState::Connected
NotConnected(st) == st # "Connected"

\* mutant: every error of the inner stream is taken for a disconnect
IsDisconnectAny(io) == io \in {"ServerDisconnected", "IOError"}

\* mutant: no error of the inner stream is taken for a disconnect
IsDisconnectNever(io) == FALSE

\* the match arm Err(NatsError::ServerDisconnected(_)) of each handler
IsDisconnect(io) == io = "ServerDisconnected"

\* mutant: reco! leaves the phase as it is
RecoStateKeep(st) == st

\* the first statement of reco!: *$conn.state.write() = Disconnected
RecoState(st) == "Disconnected"

\* mutant: reconnect() leaves the connection Connected while it reconnects
ReconnectStateConnected(st) == "Connected"

\* the first statement of reconnect(): *self.state.write() = Reconnecting
ReconnectState(st) == "Reconnecting"

\* what a task does after a call returned r: it goes on after Ready, parks
\* after NotReady and ends after an error (for_each and send_all end with it)
AfterReturn(r) ==
    CASE r = "Ready" -> "run"
      [] r = "NotReady" -> "parkedIo"
      [] OTHER -> "ended"

\* one call of handler h by its task; item is what start_send is offered
\* (0 for the other handlers), io what the inner stream answers if asked.
\* The broker breaks the connection at most MaxReconnects times.
Handler(h, item, io) ==
    /\ reco_pc = "idle"
    /\ status[TaskOf(h)] = "run"
    /\ IF NotConnected(state)
       THEN /\ res' = [res EXCEPT ![h] =
                        Result(state, FALSE, 0, "none", "NotReady", item, item)]
            /\ status' = [status EXCEPT ![TaskOf(h)] = "parkedConn"]
            /\ UNCHANGED <<state, failed, reco_pc>>
       ELSE IF IsDisconnect(io)
       THEN /\ Len(tasks) < MaxReconnects
            /\ state' = RecoState(state)
            /\ failed' = failed \cup {inner}
            /\ reco_pc' = h
            /\ res' = [res EXCEPT ![h] = Result(state, TRUE, inner, io, "reco", item, item)]
            /\ UNCHANGED status
       ELSE /\ io = "ServerDisconnected" => Len(tasks) < MaxReconnects
            /\ res' = [res EXCEPT ![h] =
                        Result(state, TRUE, inner, io, io, item,
                               IF io = "NotReady" THEN item ELSE 0)]
            /\ status' = [status EXCEPT ![TaskOf(h)] = AfterReturn(io)]
            /\ failed' = IF io = "ServerDisconnected" THEN failed \cup {inner} ELSE failed
            /\ UNCHANGED <<state, reco_pc>>
    /\ UNCHANGED <<inner, sockets, tasks>>
    /\ UNCHANGED nonConnVars

start_send(item, io) == Handler("start_send", item, io)
poll_complete(io) == Handler("poll_complete", 0, io)
poll(io) == Handler("poll", 0, io)

\* the rest of reco!: reconnect() is called, which sets Reconnecting at once,
\* its future is spawned, and the handler returns NotReady to its caller
reconnect ==
    /\ reco_pc # "idle"
    /\ state' = ReconnectState(state)
    /\ tasks' = Append(tasks, [pc |-> "connecting", gen |-> 0])
    /\ res' = [res EXCEPT ![reco_pc].ret = "NotReady"]
    /\ status' = [status EXCEPT ![TaskOf(reco_pc)] = "parkedConn"]
    /\ reco_pc' = "idle"
    /\ UNCHANGED <<inner, sockets, failed>>
    /\ UNCHANGED nonConnVars

\* mutant: the reconnect task sets Connected before it swaps the inner stream
ReconnectWriteStateFirst(n) == IF n = 1 THEN "state" ELSE "inner"

\* the two writes of the last closure of reconnect(), in order
ReconnectWrite(n) == IF n = 1 THEN "inner" ELSE "state"

\* reconnect task i, once its socket is established (TCP, and TLS if is_tls):
\* one of the two writes of its last closure
ReconnectTaskStep(i) ==
    /\ tasks[i].pc \in {"connecting", "swapping"}
    /\ LET n == IF tasks[i].pc = "connecting" THEN 1 ELSE 2
           g == IF n = 1 THEN sockets + 1 ELSE tasks[i].gen
       IN /\ IF ReconnectWrite(n) = "inner"
             THEN inner' = g /\ UNCHANGED state
             ELSE state' = "Connected" /\ UNCHANGED inner
          /\ tasks' = [tasks EXCEPT ![i] =
                        [pc |-> IF n = 1 THEN "swapping" ELSE "done", gen |-> g]]
          /\ sockets' = IF n = 1 THEN sockets + 1 ELSE sockets
    /\ UNCHANGED <<failed, reco_pc, status, res>>
    /\ UNCHANGED nonConnVars

\* reconnect task i fails: connect_tcp or upgrade_tcp_to_tls returns an
\* error, map_err logs it, and none of the closures runs
ReconnectTaskFail(i) ==
    /\ tasks[i].pc = "connecting"
    /\ tasks' = [tasks EXCEPT ![i].pc = "failed"]
    /\ UNCHANGED <<state, inner, sockets, failed, reco_pc, status, res>>
    /\ UNCHANGED nonConnVars

\* the socket a task waits for becomes ready: the task is polled again
IoWake(t) ==
    /\ status[t] = "parkedIo"
    /\ status' = [status EXCEPT ![t] = "run"]
    /\ UNCHANGED <<state, inner, sockets, failed, tasks, reco_pc, res>>
    /\ UNCHANGED nonConnVars

\* something outside the connection notifies a task the connection parked
\* (an item queued for the writer, the other half releasing the BiLock)
Wake(t) ==
    /\ status[t] = "parkedConn"
    /\ status' = [status EXCEPT ![t] = "run"]
    /\ UNCHANGED <<state, inner, sockets, failed, tasks, reco_pc, res>>
    /\ UNCHANGED nonConnVars

(***************************************************************************)
(* The locks of the connection (net/connection.rs), statement by           *)
(* statement.  state and inner are parking_lot RwLocks.  A handler tests   *)
(* state with try_read and takes inner with try_write; inside reco! and    *)
(* reconnect() it writes state with write(), which waits.  The reconnect   *)
(* task writes inner and then state with write(), one guard at a time.     *)
(* The handlers take &mut self, and the two halves made by split() share   *)
(* one BiLock: one task at a time is inside a handler.                     *)
(***************************************************************************)
\* RwLock::try_read succeeds unless a writer holds the lock
CanRead(l) == l.w = "free"

\* RwLock::write returns once no writer and no reader holds the lock
CanWrite(l) == l.w = "free" /\ l.r = {}

\* where a task stands before a state.write(): in reco!, in reconnect(), or
\* in the last closure of the reconnect task
StateWriters == {"reco_write", "reconnect_write", "state_write"}

\* the value each of these writes stores
Stored(pc) ==
    CASE pc = "reco_held" -> "Disconnected"
      [] pc = "reconnect_held" -> "Reconnecting"
      [] OTHER -> "Connected"

\* where the task goes on after the write
AfterStateWrite(pc) ==
    CASE pc = "reco_held" -> "reconnect_write"
      [] pc = "reconnect_held" -> "spawn"
      [] OTHER -> "done"

\* mutant: the guard of inner is kept by the one who took it
GuardKept(p) == p

\* the holder of inner after its guard went out of scope: at the end of the
\* if-let block of a handler, at the end of the statement
\* *inner_arc.write() = inner of the reconnect task
GuardDropped(p) == "free"

\* task p is outside the handlers
Outside(p) == lpc[p] \in {"idle", "parked", "ended"}

\* a handler is called: self.state.try_read()
StateTryRead(p) ==
    /\ p \in Tasks
    /\ lpc[p] = "idle"
    /\ \A q \in Tasks \ {p} : Outside(q)
    /\ IF CanRead(lock_state)
       THEN /\ lock_state' = [lock_state EXCEPT !.r = @ \cup {p}]
            /\ lpc' = [lpc EXCEPT ![p] = "reading"]
       ELSE /\ lpc' = [lpc EXCEPT ![p] = "parked"]
            /\ UNCHANGED lock_state
    /\ UNCHANGED <<state, lock_inner>>
    /\ UNCHANGED nonLockVars

\* *state != Connected is evaluated and the read guard dropped
StateRead(p) ==
    /\ lpc[p] = "reading"
    /\ lock_state' = [lock_state EXCEPT !.r = @ \ {p}]
    /\ lpc' = [lpc EXCEPT ![p] = IF NotConnected(state) THEN "parked" ELSE "try_inner"]
    /\ UNCHANGED <<state, lock_inner>>
    /\ UNCHANGED nonLockVars

\* self.inner.try_write(): the guard, or NotReady to the caller
InnerTryWrite(p) ==
    /\ lpc[p] = "try_inner"
    /\ IF lock_inner = "free"
       THEN lock_inner' = p /\ lpc' = [lpc EXCEPT ![p] = "io"]
       ELSE lpc' = [lpc EXCEPT ![p] = "parked"] /\ UNCHANGED lock_inner
    /\ UNCHANGED <<state, lock_state>>
    /\ UNCHANGED nonLockVars

\* the call of the inner stream under the guard; on ServerDisconnected the
\* handler enters reco!, else it returns and the guard is dropped
InnerCall(p, io) ==
    /\ lpc[p] = "io"
    /\ IF IsDisconnect(io)
       THEN /\ \E t \in RecoTasks : lpc[t] = "unspawned"
            /\ lpc' = [lpc EXCEPT ![p] = "reco_write"]
            /\ UNCHANGED lock_inner
       ELSE /\ lpc' = [lpc EXCEPT ![p] =
                        CASE AfterReturn(io) = "run" -> "idle"
                          [] AfterReturn(io) = "parkedIo" -> "parked"
                          [] OTHER -> "ended"]
            /\ lock_inner' = GuardDropped(p)
    /\ UNCHANGED <<state, lock_state>>
    /\ UNCHANGED nonLockVars

\* state.write() returns the guard
StateWrite(p) ==
    /\ lpc[p] \in StateWriters
    /\ CanWrite(lock_state)
    /\ lock_state' = [lock_state EXCEPT !.w = p]
    /\ lpc' = [lpc EXCEPT ![p] =
                CASE lpc[p] = "reco_write" -> "reco_held"
                  [] lpc[p] = "reconnect_write" -> "reconnect_held"
                  [] OTHER -> "state_held"]
    /\ UNCHANGED <<state, lock_inner>>
    /\ UNCHANGED nonLockVars

\* the assignment through the guard, which is dropped with the statement
StateStore(p) ==
    /\ lpc[p] \in {"reco_held", "reconnect_held", "state_held"}
    /\ state' = Stored(lpc[p])
    /\ lock_state' = [lock_state EXCEPT !.w = "free"]
    /\ lpc' = [lpc EXCEPT ![p] = AfterStateWrite(lpc[p])]
    /\ UNCHANGED lock_inner
    /\ UNCHANGED nonLockVars

\* tokio_executor::spawn($conn.reconnect()...): the task may run from now on
Spawn(p) ==
    /\ lpc[p] = "spawn"
    /\ \E t \in RecoTasks :
        /\ lpc[t] = "unspawned"
        /\ lpc' = [lpc EXCEPT ![p] = "return", ![t] = "connecting"]
    /\ UNCHANGED <<state, lock_inner, lock_state>>
    /\ UNCHANGED nonLockVars

\* the handler returns NotReady; the guard of inner is dropped at the end
\* of the if-let block
Return(p) ==
    /\ lpc[p] = "return"
    /\ lock_inner' = GuardDropped(p)
    /\ lpc' = [lpc EXCEPT ![p] = "parked"]
    /\ UNCHANGED <<state, lock_state>>
    /\ UNCHANGED nonLockVars

\* something notifies a task that was answered NotReady
LockWake(p) ==
    /\ lpc[p] = "parked"
    /\ lpc' = [lpc EXCEPT ![p] = "idle"]
    /\ UNCHANGED <<state, lock_inner, lock_state>>
    /\ UNCHANGED nonLockVars

\* connect_tcp (and the TLS upgrade) of reconnect task t ends: with a
\* socket, or with an error that ends the task
TaskConnect(t, ok) ==
    /\ lpc[t] = "connecting"
    /\ lpc' = [lpc EXCEPT ![t] = IF ok THEN "inner_write" ELSE "failed"]
    /\ UNCHANGED <<state, lock_inner, lock_state>>
    /\ UNCHANGED nonLockVars

\* inner_arc.write() returns the guard
InnerWrite(t) ==
    /\ lpc[t] = "inner_write"
    /\ lock_inner = "free"
    /\ lock_inner' = t
    /\ lpc' = [lpc EXCEPT ![t] = "inner_held"]
    /\ UNCHANGED <<state, lock_state>>
    /\ UNCHANGED nonLockVars

\* the new stream is assigned
InnerStore(t) ==
    /\ lpc[t] = "inner_held"
    /\ lock_inner' = GuardDropped(t)
    /\ lpc' = [lpc EXCEPT ![t] = "state_write"]
    /\ UNCHANGED <<state, lock_state>>
    /\ UNCHANGED nonLockVars

(***************************************************************************)
(* Verbose mode (client/sender.rs, client/ack_trigger.rs).  send places    *)
(* the op on the outbound queue when it is called; the future it returns   *)
(* is complete at once, or in verbose mode runs AckTrigger::fire at its    *)
(* first poll and then waits for the flag of the trigger.  The flag of     *)
(* the trigger is the got_ack flag the reactor sets on +OK, and the        *)
(* sender is verbose when the client is.                                   *)
(***************************************************************************)
\* the number of +OK the reactor has processed
AcksSeen == OksAmong(Len(sysLog) - Len(other_q))

\* NatsClientSender.verbose, as the client sets it up
SenderVerbose == verbose

\* NatsClientSender.trigger: the flag it shares with the reactor
trigger == got_ack

\* mutant: fire does not pull the trigger down
fireKeep(flag) == flag

\* AckTrigger::fire: pull_down stores false; the trigger itself is the future
fire(flag) == FALSE

\* AckTrigger::is_up, what Future::poll of the trigger tests
is_up(flag) == flag

\* a task calls send(op): unbounded_send at the call.  acks = the +OK
\* processed so far; doneAcks = the +OK processed when the future completed.
SendCall ==
    /\ CanAct
    /\ calls' = calls + 1
    /\ outq' = Send(outq, PUB(1, 0))
    /\ sentLog' = Send(sentLog, PUB(1, 0))
    /\ sends' = Append(sends, SendFuture("task", AcksSeen))
    /\ UNCHANGED <<subs_tx, chans, server_info, verbose, got_ack, wire, subPending,
                   unsubPending, req, ret>>
    /\ UNCHANGED inVars
    /\ UNCHANGED <<connVars, codecVars, lockVars>>

\* the first poll of the future of send i: Either::A is complete; Either::B
\* runs the closure, which fires the trigger
SendPoll(i) ==
    /\ sends[i].pc = "queued"
    /\ IF ~SenderVerbose
       THEN /\ sends' = [sends EXCEPT ![i].pc = "done", ![i].doneAcks = AcksSeen]
            /\ UNCHANGED got_ack
       ELSE /\ sends' = [sends EXCEPT ![i].pc = "fired"]
            /\ got_ack' = fire(trigger)
    /\ UNCHANGED <<subs_tx, chans, server_info, verbose, outq, wire, subPending,
                   unsubPending, req, calls, ret, sentLog>>
    /\ UNCHANGED inVars
    /\ UNCHANGED <<connVars, codecVars, lockVars>>

\* a later poll of the future of send i: the trigger is Ready when it is up
\* (while it is down it notifies its own task and is polled again)
TriggerPoll(i) ==
    /\ sends[i].pc = "fired"
    /\ is_up(trigger)
    /\ sends' = [sends EXCEPT ![i].pc = "done", ![i].doneAcks = AcksSeen]
    /\ UNCHANGED <<subs_tx, chans, server_info, verbose, got_ack, outq, wire,
                   subPending, unsubPending, req, calls, ret, sentLog>>
    /\ UNCHANGED inVars
    /\ UNCHANGED <<connVars, codecVars, lockVars>>

(***************************************************************************)
(* The codec at work: one command is encoded, its bytes reach the read     *)
(* buffer in chunks, and the framed stream calls decode when bytes have    *)
(* arrived and again after every frame it got.                             *)
(***************************************************************************)
\* Encoder::encode: the bytes of the item are put into the write buffer
encode(op) ==
    /\ c_op.kind = "none"
    /\ c_op' = op
    /\ c_wire' = into_bytes(op)
    /\ UNCHANGED <<c_fed, codec_buf, next_index, c_dirty, c_res>>
    /\ UNCHANGED nonCodecVars

\* the socket reads the next k bytes into the read buffer
CodecAppend(k) ==
    /\ c_fed + k <= Len(c_wire)
    /\ codec_buf' = codec_buf \o SubSeq(c_wire, c_fed + 1, c_fed + k)
    /\ c_fed' = c_fed + k
    /\ c_dirty' = TRUE
    /\ UNCHANGED <<c_op, c_wire, next_index, c_res>>
    /\ UNCHANGED nonCodecVars

\* the framed stream calls Decoder::decode on the read buffer
CodecDecode ==
    /\ c_dirty
    /\ LET d == decode(codec_buf, next_index)
       IN /\ codec_buf' = d.buf
          /\ next_index' = d.next_index
          /\ c_res' = [kind |-> d.kind, op |-> d.op, err |-> d.err,
                       input |-> codec_buf, start |-> next_index]
          /\ c_dirty' = (d.kind = "Op" /\ d.buf # <<>>)
    /\ UNCHANGED <<c_op, c_wire, c_fed>>
    /\ UNCHANGED nonCodecVars

(***************************************************************************)
(* The specification.                                                      *)
(***************************************************************************)
Next ==
    \/ \E op \in MsgOps \cup SysOps \cup {FrameError} : BrokerSend(op)
    \/ MuxStep
    \/ ReactorStep
    \/ PublicPoll
    \/ WriterStep
    \/ Connect
    \/ \E len \in 1..MaxVal : Publish(len)
    \/ \E s \in UserSids : SubscribeCall(s)
    \/ \E s \in UserSids : SubscribePoll(s)
    \/ \E c \in 1..Len(chans) : StreamPoll(c)
    \/ \E c \in 1..Len(chans) : StreamDrop(c)
    \/ \E s \in UserSids, max \in {None} \cup 0..MaxVal : UnsubscribeCall(s, max)
    \/ \E s \in UserSids : UnsubscribePoll(s)
    \/ \E r \in Reqs, len \in 1..MaxVal : RequestCall(r, len)
    \/ \E r \in Reqs : RequestSend(r)
    \/ \E r \in Reqs : RequestPoll(r)
    \/ \E r \in Reqs : RequestDrop(r)
    \/ \E item \in Items, io \in IoResults : start_send(item, io)
    \/ \E io \in IoResults : poll_complete(io)
    \/ \E io \in IoResults : poll(io)
    \/ reconnect
    \/ \E i \in 1..Len(tasks) : ReconnectTaskStep(i)
    \/ \E i \in 1..Len(tasks) : ReconnectTaskFail(i)
    \/ \E t \in Tasks : IoWake(t)
    \/ \E t \in Tasks : Wake(t)
    \/ \E p \in Tasks : StateTryRead(p) \/ StateRead(p) \/ InnerTryWrite(p)
    \/ \E p \in Tasks, io \in IoResults : InnerCall(p, io)
    \/ \E p \in LockProcs : StateWrite(p) \/ StateStore(p)
    \/ \E p \in Tasks : Spawn(p) \/ Return(p) \/ LockWake(p)
    \/ \E t \in RecoTasks, ok \in BOOLEAN : TaskConnect(t, ok)
    \/ \E t \in RecoTasks : InnerWrite(t) \/ InnerStore(t)
    \/ SendCall
    \/ \E i \in 1..Len(sends) : SendPoll(i)
    \/ \E i \in 1..Len(sends) : TriggerPoll(i)
    \/ \E op \in CodecOps : encode(op)
    \/ \E k \in 1..(Len(c_wire) - c_fed) : CodecAppend(k)
    \/ CodecDecode

Spec == Init /\ [][Next]_vars

(***************************************************************************)
(* Parts of the system.  Each leaves out tasks and calls that write none   *)
(* of the variables the part reads, so that the rest can be explored with  *)
(* more calls and more inbound ops.                                        *)
(***************************************************************************)
\* a client connected without the verbose option (the default of ConnectCommand)
InitQuiet == Init /\ verbose = FALSE

\* subscriptions: the multiplexer, subscribe, unsubscribe and the consumers
NextSubs ==
    \/ \E op \in MsgOps \cup {PING} : BrokerSend(op)
    \/ MuxStep
    \/ \E s \in UserSids : SubscribeCall(s)
    \/ \E s \in UserSids : SubscribePoll(s)
    \/ \E c \in 1..Len(chans) : StreamPoll(c)
    \/ \E s \in UserSids, max \in {None} \cup 0..MaxVal : UnsubscribeCall(s, max)
    \/ \E s \in UserSids : UnsubscribePoll(s)

SpecSubs == InitQuiet /\ [][NextSubs]_vars

\* the payload cap: INFO, the reactor, publish and request
NextCap ==
    \/ \E op \in {INFO(x) : x \in 1..MaxInfo} : BrokerSend(op)
    \/ MuxStep
    \/ ReactorStep
    \/ \E len \in 1..MaxVal : Publish(len)
    \/ \E r \in Reqs, len \in 1..MaxVal : RequestCall(r, len)

SpecCap == InitQuiet /\ [][NextCap]_vars

\* request / reply: the requests, the multiplexer and the broker's MSGs
NextReq ==
    \/ \E op \in MsgOps : BrokerSend(op)
    \/ MuxStep
    \/ \E r \in Reqs, len \in 1..MaxVal : RequestCall(r, len)
    \/ \E r \in Reqs : RequestSend(r)
    \/ \E r \in Reqs : RequestPoll(r)

SpecReq == InitQuiet /\ [][NextReq]_vars

\* the send path: every call that sends, and the writer task
NextOut ==
    \/ WriterStep
    \/ Connect
    \/ Publish(1)
    \/ \E r \in Reqs : RequestCall(r, 1)
    \/ \E r \in Reqs : RequestSend(r)

SpecOut == InitQuiet /\ [][NextOut]_vars

\* the system stream: multiplexer, reactor, the application's public stream
\* and the writer task
NextSys ==
    \/ \E op \in MsgOps \cup SysOps : BrokerSend(op)
    \/ MuxStep
    \/ ReactorStep
    \/ PublicPoll
    \/ WriterStep

SpecSys == Init /\ [][NextSys]_vars

\* the handshake: connect and every other operation that sends, with the
\* verbose option set or not
NextHandshake ==
    \/ BrokerSend(PING)
    \/ MuxStep
    \/ ReactorStep
    \/ WriterStep
    \/ Connect
    \/ Publish(1)
    \/ \E s \in UserSids : SubscribeCall(s)
    \/ \E s \in UserSids : UnsubscribeCall(s, None)
    \/ \E r \in Reqs : RequestCall(r, 1)
    \/ \E r \in Reqs : RequestSend(r)

SpecHandshake == Init /\ [][NextHandshake]_vars

\* cancellation: subscriptions whose consumer may drop the stream
NextDrop ==
    \/ \E op \in MsgOps : BrokerSend(op)
    \/ MuxStep
    \/ \E s \in UserSids : SubscribeCall(s)
    \/ \E s \in UserSids : SubscribePoll(s)
    \/ \E c \in 1..Len(chans) : StreamPoll(c)
    \/ \E c \in 1..Len(chans) : StreamDrop(c)

SpecDrop == InitQuiet /\ [][NextDrop]_vars

\* cancellation of a request: the application may drop its future
NextCancel ==
    \/ \E op \in MsgOps : BrokerSend(op)
    \/ MuxStep
    \/ \E r \in Reqs : RequestCall(r, 1)
    \/ \E r \in Reqs : RequestSend(r)
    \/ \E r \in Reqs : RequestPoll(r)
    \/ \E r \in Reqs : RequestDrop(r)

\* the multiplexer task runs whenever an op is waiting, and a request future
\* that was not dropped is polled
SpecCancelFair ==
    /\ InitQuiet
    /\ [][NextCancel]_vars
    /\ WF_vars(MuxStep)
    /\ WF_vars(\E r \in Reqs : RequestSend(r))
    /\ WF_vars(\E r \in Reqs : RequestPoll(r))

\* the broken inner channel: the writer task may end on an error of the
\* sink, before or after any call of the client
NextBroken ==
    \/ start_send(1, "IOError")
    \/ poll_complete("IOError")
    \/ Connect
    \/ Publish(1)
    \/ \E s \in UserSids : SubscribeCall(s)
    \/ \E s \in UserSids : SubscribePoll(s)
    \/ \E s \in UserSids, max \in {None, 1} : UnsubscribeCall(s, max)
    \/ \E s \in UserSids : UnsubscribePoll(s)
    \/ \E r \in Reqs : RequestCall(r, 1)
    \/ \E r \in Reqs : RequestSend(r)

SpecBroken == InitQuiet /\ [][NextBroken]_vars

\* framing errors: the inbound stream may yield an error among the ops
NextFrame ==
    \/ \E op \in MsgOps \cup {PING, FrameError} : BrokerSend(op)
    \/ MuxStep
    \/ ReactorStep
    \/ PublicPoll
    \/ \E s \in UserSids : SubscribeCall(s)
    \/ \E s \in UserSids : SubscribePoll(s)
    \/ \E c \in 1..Len(chans) : StreamPoll(c)

\* every task and every consumer that can take a step does so in the end
SpecFrameFair ==
    /\ InitQuiet
    /\ [][NextFrame]_vars
    /\ WF_vars(MuxStep)
    /\ WF_vars(ReactorStep)
    /\ WF_vars(PublicPoll)
    /\ WF_vars(\E s \in UserSids : SubscribePoll(s))
    /\ WF_vars(\E c \in 1..Len(chans) : StreamPoll(c))

\* the connection: its handlers, reco! and the reconnect tasks
NextConn ==
    \/ \E item \in Items, io \in IoResults : start_send(item, io)
    \/ \E io \in IoResults : poll_complete(io)
    \/ \E io \in IoResults : poll(io)
    \/ reconnect
    \/ \E i \in 1..Len(tasks) : ReconnectTaskStep(i)
    \/ \E i \in 1..Len(tasks) : ReconnectTaskFail(i)
    \/ \E t \in Tasks : IoWake(t)
    \/ \E t \in Tasks : Wake(t)

SpecConn == InitQuiet /\ [][NextConn]_vars

\* the locks: the two tasks in the handlers and the reconnect tasks
NextLock ==
    \/ \E p \in Tasks : StateTryRead(p)
    \/ \E p \in Tasks : StateRead(p)
    \/ \E p \in Tasks : InnerTryWrite(p)
    \/ \E p \in Tasks, io \in IoResults : InnerCall(p, io)
    \/ \E p \in LockProcs : StateWrite(p)
    \/ \E p \in LockProcs : StateStore(p)
    \/ \E p \in Tasks : Spawn(p)
    \/ \E p \in Tasks : Return(p)
    \/ \E p \in Tasks : LockWake(p)
    \/ \E t \in RecoTasks, ok \in BOOLEAN : TaskConnect(t, ok)
    \/ \E t \in RecoTasks : InnerWrite(t)
    \/ \E t \in RecoTasks : InnerStore(t)

\* a thread inside a handler or inside the closure of the reconnect task
\* runs on, and a write() that waits returns once the lock stays free.
\* Nothing promises that a parked task is notified.
SpecLockFair ==
    /\ InitQuiet
    /\ [][NextLock]_vars
    /\ \A p \in LockProcs :
        /\ WF_vars(StateRead(p) \/ InnerTryWrite(p) \/ StateStore(p) \/ Spawn(p)
                    \/ Return(p) \/ InnerStore(p))
        /\ WF_vars(\E io \in IoResults : InnerCall(p, io))
        /\ WF_vars(\E ok \in BOOLEAN : TaskConnect(p, ok))
        /\ WF_vars(StateWrite(p))
        /\ WF_vars(InnerWrite(p))

\* the scheduling of the runtime: a task that can run is polled, a handler
\* inside reco! goes on, and a spawned reconnect task finishes, one way or
\* the other.  Nothing promises that a parked task is notified.
SpecConnFair ==
    /\ SpecConn
    /\ WF_vars(\E item \in Items, io \in IoResults : start_send(item, io))
    /\ WF_vars(\E io \in IoResults : poll_complete(io))
    /\ WF_vars(\E io \in IoResults : poll(io))
    /\ WF_vars(reconnect)
    /\ WF_vars(\E i \in 1..Len(tasks) : ReconnectTaskStep(i) \/ ReconnectTaskFail(i))

\* verbose mode: the sender's futures, the broker's +OK and the reactor
NextAck ==
    \/ \E op \in {OK, PING} : BrokerSend(op)
    \/ MuxStep
    \/ ReactorStep
    \/ SendCall
    \/ \E i \in 1..Len(sends) : SendPoll(i)
    \/ \E i \in 1..Len(sends) : TriggerPoll(i)

SpecAck == Init /\ [][NextAck]_vars

\* a client connected with the verbose option
InitVerbose == Init /\ verbose = TRUE

\* the +OK the server has sent so far
OksSent == OksAmong(Len(sysLog)) + Cardinality({i \in 1..Len(inbound) : inbound[i] = OK})

\* a server that answers every command it has received with one +OK
ServerAck ==
    /\ OksSent < Len(wire)
    /\ inbound' = Append(inbound, OK)
    /\ nIn' = nIn + 1
    /\ UNCHANGED <<mux_done, subs_tx, chans, other_q, pub_q, pubOut, server_info, verbose,
                   got_ack, outq, wire, subPending, unsubPending, req, calls,
                   ret, sentLog, sysLog, arrived>>
    /\ UNCHANGED extVars

\* one task that sends, and waits for each send before it makes the next
SeqSendCall ==
    /\ \A i \in 1..Len(sends) : sends[i].by = "task" => sends[i].pc = "done"
    /\ SendCall

\* verbose mode with a server that acknowledges: one task sending in
\* sequence, the writer task, the server's +OK and PING, the reactor
NextVerbose ==
    \/ BrokerSend(PING)
    \/ ServerAck
    \/ MuxStep
    \/ ReactorStep
    \/ WriterStep
    \/ SeqSendCall
    \/ \E i \in 1..Len(sends) : SendPoll(i)
    \/ \E i \in 1..Len(sends) : TriggerPoll(i)

\* every task runs when it can, the server answers, and a future that is
\* awaited is polled (the trigger notifies its own task while it is down)
SpecVerboseFair ==
    /\ InitVerbose
    /\ [][NextVerbose]_vars
    /\ WF_vars(ServerAck)
    /\ WF_vars(MuxStep)
    /\ WF_vars(ReactorStep)
    /\ WF_vars(WriterStep)
    /\ WF_vars(\E i \in 1..Len(sends) : SendPoll(i))
    /\ WF_vars(\E i \in 1..Len(sends) : TriggerPoll(i))

\* the codec: one command encoded, its bytes appended in chunks, decode calls
NextCodec ==
    \/ \E op \in CodecOps : encode(op)
    \/ \E k \in 1..(Len(c_wire) - c_fed) : CodecAppend(k)
    \/ CodecDecode

SpecCodec == InitQuiet /\ [][NextCodec]_vars

(***************************************************************************)
(* Properties.                                                             *)
(***************************************************************************)
Chans == 1..Len(chans)
SubChans == {c \in Chans : chans[c].kind = "sub"}

\* the messages of the consumer of channel c that arrived after unsubscribe
\* recorded the cap of its stream
AfterCap(c) == Len(chans[c].recv) - chans[c].capPre

\* C1: cap enforcement.  Once unsubscribe(sid, max_msgs = N), N >= 1, has
\* recorded the cap on a subscription, its consumer is given no more than N
\* of the messages that arrive afterwards.
CapEnforced ==
    \A c \in SubChans :
        chans[c].capN >= 1 => AfterCap(c) <= chans[c].capN

\* C2: a subscription stream whose cap N >= 1 was reached ends with the error
\* SubscriptionReachedMaxMsgs(N), not with a normal end of stream.
CapEndsWithError ==
    \A c \in SubChans :
        (chans[c].reached >= 1 /\ chans[c].end # Open)
            => chans[c].end = [err |-> "SubscriptionReachedMaxMsgs",
                               val |-> chans[c].reached]

\* the subsequence relation: s can be had from t by leaving elements out
RECURSIVE IsSubSeq(_, _)
IsSubSeq(s, t) ==
    IF s = <<>> THEN TRUE
    ELSE IF t = <<>> THEN FALSE
    ELSE IF Head(s) = Head(t) THEN IsSubSeq(Tail(s), Tail(t))
    ELSE IsSubSeq(s, Tail(t))

NoDuplicates(s) == \A i, j \in 1..Len(s) : i # j => s[i] # s[j]

\* the MSGs of one SID in the order the multiplexer read them
IsFor(sid, m) == m.sid = sid
ArrivedFor(sid) == SelectSeq(arrived, LAMBDA m : IsFor(sid, m))

\* every message channel c has carried: given to the consumer, or still queued
Carried(c) == chans[c].recv \o chans[c].buf

\* C3: subscription isolation.  Every message on the stream made for a SID
\* carries that SID: a MSG for SID A is never delivered on the stream of B.
Isolation ==
    \A c \in Chans :
        \A i \in 1..Len(Carried(c)) : Carried(c)[i].sid = chans[c].sid

\* two subscriptions with different SIDs have each been given a message
IsolationWitness ==
    \E c, d \in SubChans :
        /\ chans[c].sid # chans[d].sid
        /\ chans[c].recv # <<>>
        /\ chans[d].recv # <<>>

\* C10: per-subscription order.  The messages a consumer is given are MSGs of
\* its SID, in the order they arrived on the inbound stream, none twice.
PerSubscriptionOrder ==
    \A c \in Chans :
        /\ IsSubSeq(Carried(c), ArrivedFor(chans[c].sid))
        /\ NoDuplicates(Carried(c))

\* a consumer has been given two messages between which a MSG of another SID
\* arrived
PerSubscriptionOrderWitness ==
    \E c \in SubChans :
        /\ Len(chans[c].recv) >= 2
        /\ \E i \in 1..Len(arrived) :
            /\ arrived[i].sid # chans[c].sid
            /\ chans[c].recv[1].id < arrived[i].id
            /\ arrived[i].id < chans[c].recv[2].id

\* what one step may do to a publish or request call once max_payload is known
PayloadCapStep ==
    server_info # None =>
        /\ (calls' # calls /\ ret'.op = "publish") =>
            IF ret'.len > server_info
            THEN /\ ret'.err = "MaxPayloadOverflow"
                 /\ ret'.val = server_info
                 /\ UNCHANGED <<outq, sentLog, subs_tx, chans>>
            ELSE /\ ret'.err = "ok"
                 /\ outq' = Append(outq, PUB(ret'.len, 0))
                 /\ sentLog' = Append(sentLog, PUB(ret'.len, 0))
        /\ \A r \in Reqs :
            (req[r].pc = "idle" /\ req'[r].pc # "idle") =>
                IF ret'.len > server_info
                THEN /\ ret'.err = "MaxPayloadOverflow"
                     /\ ret'.val = server_info
                     /\ req'[r].pc = "failed"
                     /\ UNCHANGED <<outq, sentLog, subs_tx, chans>>
                ELSE /\ ret'.err = "ok"
                     /\ subs_tx'[ReqSid(r)].ch # 0

\* C4: payload cap.  With max_payload = X stored from an INFO, a publish or
\* request whose payload is longer than X returns MaxPayloadOverflow(X), sends
\* nothing and registers no sink; a payload of length X or less is accepted
\* (publish sends its PUB, request registers its sink).
PayloadCap == [][PayloadCapStep]_vars

\* a publish was refused for overflow, a request was refused too, and a PUB
\* whose payload is exactly max_payload long was sent
PayloadCapWitness ==
    /\ server_info # None
    /\ ret.op = "publish"
    /\ ret.err = "MaxPayloadOverflow"
    /\ \E r \in Reqs : req[r].pc = "failed"
    /\ \E i \in 1..Len(sentLog) : sentLog[i] = PUB(server_info, 0)

\* the fairness of the runtime: a request future that can progress is polled
SpecReqFair ==
    /\ SpecReq
    /\ WF_vars(\E r \in Reqs : RequestSend(r))
    /\ WF_vars(\E r \in Reqs : RequestPoll(r))

\* C5: request / reply.  Once a MSG for the inbox SID of a request has arrived,
\* the request future eventually completes, and it yields the first MSG that
\* arrived for that SID (a completed request never holds another message).
RequestReply ==
    /\ \A r \in Reqs :
        (ArrivedFor(ReqSid(r)) # <<>>) ~>
            (req[r].pc = "done" /\ req[r].result = ArrivedFor(ReqSid(r))[1].id)
    /\ [](\A r \in Reqs :
            req[r].pc = "done" =>
                /\ ArrivedFor(ReqSid(r)) # <<>>
                /\ req[r].result = ArrivedFor(ReqSid(r))[1].id)

\* a request has completed with the first of two MSGs that arrived for its SID
RequestReplyWitness ==
    \E r \in Reqs :
        /\ req[r].pc = "done"
        /\ Len(ArrivedFor(ReqSid(r))) >= 2
        /\ req[r].result = ArrivedFor(ReqSid(r))[1].id

\* the place of op in the sequence of sent ops (0: not sent)
IndexOf(log, op) ==
    IF \E i \in 1..Len(log) : log[i] = op
    THEN CHOOSE i \in 1..Len(log) : log[i] = op /\ \A j \in 1..(i - 1) : log[j] # op
    ELSE 0

Count(log, op) == Cardinality({i \in 1..Len(log) : log[i] = op})

SubOf(r) == SUB(ReqSid(r))
UnsubOf(r) == UNSUB(ReqSid(r), 1)
PubOf(r) == PUB(req[r].len, ReqSid(r))

\* the three commands of request r are sent once each, in the order SUB, UNSUB, PUB
RequestOrder(r) ==
    /\ Count(sentLog, SubOf(r)) <= 1
    /\ Count(sentLog, UnsubOf(r)) <= 1
    /\ Count(sentLog, PubOf(r)) <= 1
    /\ IndexOf(sentLog, UnsubOf(r)) # 0 =>
        /\ IndexOf(sentLog, SubOf(r)) # 0
        /\ IndexOf(sentLog, SubOf(r)) < IndexOf(sentLog, UnsubOf(r))
    /\ IndexOf(sentLog, PubOf(r)) # 0 =>
        /\ IndexOf(sentLog, UnsubOf(r)) # 0
        /\ IndexOf(sentLog, UnsubOf(r)) < IndexOf(sentLog, PubOf(r))

\* C6: the inbox sink of a request is in the subscription table before its
\* SUB is placed on the outbound queue, and the commands of each request are
\* queued in the order SUB, UNSUB(max_msgs = 1), PUB(reply_to = inbox),
\* however requests and other sends interleave.
RequestSequence ==
    /\ [](\A r \in Reqs : RequestOrder(r))
    /\ [][\A r \in Reqs :
            (Count(sentLog', SubOf(r)) > Count(sentLog, SubOf(r)))
                => subs_tx[ReqSid(r)].ch # 0]_vars

\* two requests have sent all their commands, interleaved with each other
\* and with a CONNECT
RequestSequenceWitness ==
    \E r, q \in Reqs :
        /\ r # q
        /\ IndexOf(sentLog, PubOf(r)) # 0
        /\ IndexOf(sentLog, PubOf(q)) # 0
        /\ IndexOf(sentLog, SubOf(q)) < IndexOf(sentLog, PubOf(r))
        /\ IndexOf(sentLog, SubOf(r)) < IndexOf(sentLog, CONNECT)
        /\ IndexOf(sentLog, CONNECT) < IndexOf(sentLog, PubOf(r))

\* C9: sender FIFO.  The ops handed to the socket, followed by the ops still
\* queued, are the ops passed to send, in the order of the calls: the writer
\* task reorders, duplicates and drops nothing.
SenderFifo == wire \o outq = sentLog

\* the writer has handed over two different ops while another is queued
SenderFifoWitness ==
    /\ Len(wire) >= 2
    /\ wire[1] # wire[2]
    /\ outq # <<>>

\* the ops the reactor has taken from the system channel
Processed == SubSeq(sysLog, 1, Len(sysLog) - Len(other_q))

\* C7: PING auto-reply.  One PONG has been placed on the outbound queue for
\* every PING the reactor has processed, whether or not the application has
\* taken anything from the public stream.
PingPong == Count(sentLog, PONG) = Count(Processed, PING)

\* two PINGs were answered while the application has drained nothing
PingPongWitness ==
    /\ Count(sentLog, PONG) = 2
    /\ pubOut = <<>>
    /\ Count(pub_q, PING) = 2

\* all that was ever put on the public stream
Emitted == pubOut \o pub_q
IsPublic(op) == op.kind \notin {"INFO", "OK"}

\* C8: the public system stream carries every processed op that is not INFO
\* or OK, in arrival order, and never a MSG.
PublicStream ==
    /\ Emitted = SelectSeq(Processed, LAMBDA op : IsPublic(op))
    /\ \A i \in 1..Len(Emitted) : Emitted[i].kind \notin {"MSG", "INFO", "OK"}

\* PING then ERR were emitted, an INFO or OK between them was consumed, and
\* the application has taken the PING
PublicStreamWitness ==
    /\ Len(Processed) = 3
    /\ Processed[1] = PING
    /\ Processed[2].kind \in {"INFO", "OK"}
    /\ Processed[3] = ERR
    /\ pubOut = <<PING>>
    /\ pub_q = <<ERR>>

(***************************************************************************)
(* Properties of the connection.                                           *)
(***************************************************************************)
InFlight == {i \in 1..Len(tasks) : tasks[i].pc \in {"connecting", "swapping"}}
Failures == {i \in 1..Len(tasks) : tasks[i].pc = "failed"}
IsError(r) == r \in {"ServerDisconnected", "IOError", "CannotReconnectToServer"}
HandlersOf(t) == {h \in Handlers : TaskOf(h) = t}

\* C11: connection invariant.  A handler called while the phase is not
\* Connected returns NotReady, never an error, does not touch the inner
\* stream, and start_send hands the offered item back.
ParkedWhileNotConnected ==
    \A h \in Handlers :
        res[h].phase \in {"Reconnecting", "Disconnected"} =>
            /\ res[h].ret = "NotReady"
            /\ ~res[h].touched
            /\ h = "start_send" => res[h].item = res[h].offered

\* each of the three handlers was last called during a reconnect
ParkedWhileNotConnectedWitness ==
    /\ \A h \in Handlers : res[h].phase = "Reconnecting"
    /\ res["start_send"].item = 2

\* C12: disconnect transition.  A handler on a Connected connection whose
\* inner stream answers ServerDisconnected sets the phase to Disconnected,
\* then spawns one reconnect task and returns NotReady (with the item, for
\* start_send); the error never reaches the caller.
DisconnectTransition ==
    /\ [](\A h \in Handlers :
            res[h].io = "ServerDisconnected" => res[h].ret \in {"reco", "NotReady"})
    /\ [][\A h \in Handlers :
            (res[h].ret # "reco" /\ res'[h].ret = "reco") => state' = "Disconnected"]_vars
    /\ [][\A h \in Handlers :
            (res[h].ret = "reco" /\ res'[h].ret # "reco") =>
                /\ res'[h].ret = "NotReady"
                /\ res'[h].item = res'[h].offered
                /\ Len(tasks') = Len(tasks) + 1
                /\ tasks'[Len(tasks')].pc = "connecting"]_vars

\* start_send and poll have each met a disconnect and returned NotReady
DisconnectTransitionWitness ==
    /\ res["start_send"].io = "ServerDisconnected"
    /\ res["start_send"].ret = "NotReady"
    /\ res["poll"].io = "ServerDisconnected"
    /\ res["poll"].ret = "NotReady"
    /\ Len(tasks) = 2

\* C13: reconnect success.  Whenever the phase is Connected after a
\* disconnect, the inner slot holds the socket the last reconnect task made,
\* never a failed one.
SwapBeforeConnected ==
    state = "Connected" =>
        /\ inner \notin failed
        /\ tasks # <<>> => (inner = tasks[Len(tasks)].gen /\ inner = sockets)

\* the connection is Connected again and a handler has worked on the new socket
SwapBeforeConnectedWitness ==
    /\ state = "Connected"
    /\ failed = {1}
    /\ \E h \in Handlers : res[h].gen = 2 /\ res[h].ret = "Ready"

DisconnectedAfterFailure ==
    (Failures # {} /\ InFlight = {} /\ reco_pc = "idle" /\ tasks[Len(tasks)].pc = "failed")
        => state = "Disconnected"

\* C16: reconnect failure, liveness.  Once the reconnect attempt has failed,
\* every task parked on the connection eventually gets an error from it.
ErrorAfterFailure ==
    \A t \in Tasks :
        (Failures # {} /\ status[t] = "parkedConn")
            ~> (\E h \in HandlersOf(t) : IsError(res[h].ret))

\* C17: one reconnect per disconnect.  One reconnect task is spawned for each
\* disconnect met, and never are two reconnect tasks in flight.
OneReconnect ==
    /\ Cardinality(InFlight) <= 1
    /\ Len(tasks) + (IF reco_pc = "idle" THEN 0 ELSE 1) = Cardinality(failed)

\* the stream half met the disconnect, and the sink half was called while
\* the one reconnect task was in flight
OneReconnectWitness ==
    /\ res["poll"].io = "ServerDisconnected"
    /\ res["start_send"].phase = "Reconnecting"
    /\ res["poll_complete"].phase = "Reconnecting"
    /\ InFlight = {1}

DecodedWhole == c_res.kind # "none" /\ c_res.input = c_wire /\ c_res.start = 0

\* the string fields of the encoded command hold no blank, CR or LF
NoWhitespace(x) == \A i \in 1..Len(x) : x[i] \notin {SP, TAB, CR, LF}
NoWhitespaceOpt(o) == o = NoneOpt \/ NoWhitespace(o[1])
StringFieldsClean(op) ==
    /\ NoWhitespace(op.subject) /\ NoWhitespace(op.sid) /\ NoWhitespace(op.text)
    /\ NoWhitespaceOpt(op.reply_to) /\ NoWhitespaceOpt(op.queue_group)

\* C19: for every command variant whose string fields contain no
\* whitespace, decoding the bytes produced by encoding it yields a value
\* equal to it.
RoundTrip ==
    (DecodedWhole /\ StringFieldsClean(c_op)) => (c_res.kind = "Op" /\ c_res.op = c_op)

\* C20: a PUB or MSG with any payload bytes, an embedded CRLF included,
\* round-trips: decoding its encoding yields one command with exactly the
\* same payload, no error, and no frame split before the end of the bytes.
PayloadRoundTrip ==
    (DecodedWhole /\ c_op.kind \in {"PUB", "MSG"}) =>
        /\ c_res.kind = "Op"
        /\ c_res.op.kind = c_op.kind
        /\ c_res.op.payload = c_op.payload
        /\ codec_buf = <<>>


(***************************************************************************)
(* The codec: streaming.                                                   *)
(***************************************************************************)
\* s is the first Len(s) bytes of t
IsPrefix(s, t) == Len(s) <= Len(t) /\ SubSeq(t, 1, Len(s)) = s

\* the last decode call was given the bytes fed so far, none split off before
DecodedPrefix == c_res.kind # "none" /\ IsPrefix(c_res.input, c_wire)

\* what decode answers: need-more, a command, or an error
Answer(d) == <<d.kind, d.op, d.err>>

\* C21: chunking equivalence.  However the bytes of an encoded command are
\* cut into chunks, every decode call before the last byte has arrived
\* yields need-more, and the call that sees all the bytes yields what one
\* decode of the whole byte string with a fresh cursor yields.
ChunkingEquivalence ==
    DecodedPrefix =>
        IF Len(c_res.input) < Len(c_wire)
        THEN c_res.kind = "NeedMore"
        ELSE Answer(c_res) = Answer(decode(c_wire, 0))

\* C22: prefix safety.  Decode on a strict prefix of an encoded command
\* returns need-more, never an error, and removes no bytes from the buffer.
PrefixSafety ==
    (DecodedPrefix /\ Len(c_res.input) < Len(c_wire)) =>
        /\ c_res.kind # "Err"
        /\ c_res.kind # "Op"
        /\ IsPrefix(c_res.input, codec_buf)


(***************************************************************************)
(* The client: connect.                                                    *)
(***************************************************************************)
\* the CONNECTs among the ops of a queue or log
Connects(log) == SelectSeq(log, LAMBDA o : o.kind = "CONNECT")

\* the CONNECT that carries the configured options
ConfiguredConnect == [kind |-> "CONNECT", sid |-> 0, id |-> 0, n |-> IF verbose THEN 1 ELSE 0]

\* C23: from_options leaves no CONNECT on the outbound queue; each call of
\* connect() places exactly one CONNECT, carrying the configured options, on
\* the queue; no other step sends a CONNECT.
ConnectOnlyByConnect ==
    /\ Connects(sentLog) = <<>> /\ Connects(outq) = <<>>
    /\ [][IF Connect
          THEN /\ Connects(sentLog') = Append(Connects(sentLog), ConfiguredConnect)
               /\ outq' = Append(outq, ConfiguredConnect)
          ELSE /\ Connects(sentLog') = Connects(sentLog)
               /\ Len(Connects(outq')) <= Len(Connects(outq))]_vars

\* connect() was called twice with the verbose option set, and the reactor
\* has sent a PONG as well
ConnectOnlyByConnectWitness ==
    /\ verbose
    /\ Len(Connects(sentLog)) = 2
    /\ \E i \in 1..Len(sentLog) : sentLog[i] = PONG


(***************************************************************************)
(* The client: cancellation and unsubscribe.                               *)
(***************************************************************************)
\* C24: dropping a subscription stream removes its SID from the subscription
\* table: once the stream is dropped the table holds no entry that feeds its
\* channel.
DropRemovesSid ==
    \A c \in SubChans :
        chans[c].end.err = "dropped" => subs_tx[chans[c].sid].ch # c


\* the unsubscribe(sid) futures with unsub_now set that complete in this step
UnsubCompleted == unsubPending \ unsubPending'

\* C25: unsubscribe without max_msgs places exactly one UNSUB(sid) on the
\* outbound queue; once its future has completed the SID is absent from the
\* subscription table; a MSG that arrives for a stream cut off from the
\* table is not delivered on it; and the stream ends only when the messages
\* already queued have been given to the consumer.
UnsubscribeNow ==
    /\ [][\A s \in UserSids :
            /\ IF UnsubscribeCall(s, None)
               THEN /\ sentLog' = Append(sentLog, UNSUB(s, None))
                    /\ outq' = Append(outq, UNSUB(s, None))
               ELSE Count(sentLog', UNSUB(s, None)) = Count(sentLog, UNSUB(s, None))
            /\ s \in UnsubCompleted =>
                /\ subs_tx'[s] = NoSink
                /\ \A c \in Chans : chans[c].sid = s => Closed(subs_tx', c)]_vars
    /\ [][\A c \in Chans :
            Closed(subs_tx, c) =>
                (chans'[c].buf = chans[c].buf \/ chans'[c].buf = Tail(chans[c].buf))]_vars
    /\ [](\A c \in SubChans :
            chans[c].end.err = "Ok" => (chans[c].buf = <<>> /\ Closed(subs_tx, c)))

\* unsubscribe without max_msgs has completed on a subscription with a
\* message queued; a MSG for the SID arrived afterwards and was not
\* delivered; the consumer was given the queued message and saw the end
UnsubscribeNowWitness ==
    \E c \in SubChans :
        /\ chans[c].end.err = "Ok"
        /\ chans[c].capN = None
        /\ Len(chans[c].recv) = 1
        /\ Len(ArrivedFor(chans[c].sid)) = 2
        /\ ArrivedFor(chans[c].sid)[1] = chans[c].recv[1]
        /\ Count(sentLog, UNSUB(chans[c].sid, None)) = 1
        /\ subs_tx[chans[c].sid] = NoSink


(***************************************************************************)
(* The client: errors of the inbound stream.                               *)
(***************************************************************************)
\* a protocol error can be seen on the client's public stream or at the end
\* of a subscription stream
ErrorSurfaced ==
    \/ \E i \in 1..Len(pubOut) : pubOut[i].kind = "FrameError"
    \/ \E c \in Chans : chans[c].end.err = "ProtocolError"

\* C26: a framing error on the inbound stream is surfaced as a protocol
\* error on a stream the caller observes, and no subscription stream stays
\* open for ever after it.
FramingErrorSurfaced ==
    /\ mux_done ~> ErrorSurfaced
    /\ \A c \in 1..MaxEvents :
        (mux_done /\ c \in SubChans) ~> (c \in SubChans /\ chans[c].end # Open)


(***************************************************************************)
(* The client: the broken inner channel.                                   *)
(***************************************************************************)
\* this step is a call of connect, publish, subscribe or unsubscribe, or a
\* call of request
IsCall == calls' = calls + 1 \/ \E r \in Reqs : req[r].pc = "idle" /\ req'[r].pc # "idle"

\* C27: once the writer task has ended, every later call of connect,
\* publish, subscribe, unsubscribe and request fails with InnerBrokenChain,
\* queues nothing, registers no sink and leaves the subscription table as
\* it is.
BrokenIsPermanent ==
    /\ [][sender_broken => sender_broken']_vars
    /\ [][(sender_broken /\ IsCall) =>
            /\ ret'.err = "InnerBrokenChain"
            /\ outq' = outq
            /\ subs_tx' = subs_tx
            /\ chans' = chans]_vars


(***************************************************************************)
(* The subscription table: counts, caps and removal.                       *)
(***************************************************************************)
\* the SIDs with an entry in the table
InTable == {s \in AllSids : subs_tx[s].ch # 0}

\* C28: in every reachable state, an entry of the subscription table whose
\* max_count is set has count <= max_count, whatever subscribe, deliveries
\* and unsubscribe calls (with max 0, with a max below the count) came before.
SinkInvariant ==
    \A s \in InTable :
        subs_tx[s].max_count # None => subs_tx[s].count <= subs_tx[s].max_count

\* no entry of the table has reached its max_count
NoEntryAtCap ==
    \A s \in InTable :
        subs_tx[s].max_count # None => subs_tx[s].count # subs_tx[s].max_count

\* this step takes the entry of s out of the table
SinkRemoved(s) == s \in InTable /\ subs_tx'[s].ch = 0

\* this step is the one in which the count of s becomes equal to its max_count
CountReachesMax(s) ==
    /\ subs_tx[s].max_count # None
    /\ subs_tx[s].count + 1 = subs_tx[s].max_count
    /\ \E c \in 1..Len(chans) : Len(chans'[c].recv) = Len(chans[c].recv) + 1

\* unsubscribe without max was called for s
UnsubscribedWithoutMax(s) == \E i \in 1..Len(sentLog) : sentLog[i] = UNSUB(s, None)

\* C29: an entry leaves the subscription table exactly when its count
\* becomes equal to its max_count or when unsubscribe without max is called
\* for its SID: no entry with count == max_count is in the table, and
\* nothing else removes an entry.
SinkRemoval ==
    /\ []NoEntryAtCap
    /\ [][\A s \in AllSids :
            SinkRemoved(s) => CountReachesMax(s) \/ UnsubscribedWithoutMax(s)]_vars

\* the multiplexer reads a MSG in this step whose SID has no entry
UnknownSidMsg ==
    /\ ~mux_done
    /\ inbound # <<>>
    /\ inbound' = Tail(inbound)
    /\ Head(inbound).kind = "MSG"
    /\ Head(inbound).sid \notin InTable

\* message m is queued on, or was received from, some channel
Delivered(m) ==
    \E c \in 1..Len(chans) :
        \/ \E i \in 1..Len(chans[c].buf) : chans[c].buf[i] = m
        \/ \E i \in 1..Len(chans[c].recv) : chans[c].recv[i] = m

\* C30: a MSG whose SID is not in the subscription table is dropped
\* silently: no subscription stream gets it, the system channel does not
\* get it, no error comes of it and the table stays as it is.
UnknownSidDropped ==
    [][UnknownSidMsg =>
        /\ chans' = chans
        /\ other_q' = other_q /\ pub_q' = pub_q /\ sysLog' = sysLog
        /\ ~mux_done' /\ ret' = ret
        /\ subs_tx' = subs_tx]_vars

\* a MSG was read by the multiplexer and is on no channel, while others
\* were delivered; the multiplexer goes on
UnknownSidDroppedWitness ==
    /\ ~mux_done
    /\ other_q = <<>>
    /\ \E i \in 1..Len(arrived) : ~Delivered(arrived[i])
    /\ \E i \in 1..Len(arrived) : Delivered(arrived[i])


(***************************************************************************)
(* The stored ServerInfo.                                                  *)
(***************************************************************************)
\* the system ops the reactor has processed: all the multiplexer forwarded
\* but those still queued
ProcessedSys == SubSeq(sysLog, 1, Len(sysLog) - Len(other_q))

\* max_payload of the INFO processed last, None before the first
LastInfo ==
    LET infos == SelectSeq(ProcessedSys, LAMBDA o : o.kind = "INFO")
    IN  IF infos = <<>> THEN None ELSE infos[Len(infos)].n

\* a call with a payload of len bytes is refused for LastInfo, or accepted
Enforced(len, refused) ==
    IF LastInfo # None /\ len > LastInfo
    THEN refused /\ ret'.err = "MaxPayloadOverflow" /\ ret'.val = LastInfo
    ELSE ~refused /\ ret'.err = "ok"

\* C31: the stored ServerInfo is that of the INFO processed last; publish
\* and request enforce its max_payload, and before the first INFO no size
\* check is made: publish enqueues its PUB whatever the payload length.
ServerInfoLatest ==
    /\ [](server_info = LastInfo)
    /\ [][calls' = calls + 1 =>
            /\ ret'.op = "publish"
            /\ Enforced(ret'.len, outq' = outq)
            /\ outq' # outq => outq' = Append(outq, PUB(ret'.len, 0))]_vars
    /\ [][\A r \in Reqs : req[r].pc = "idle" /\ req'[r].pc # "idle" =>
            Enforced(req'[r].len, req'[r].pc = "failed")]_vars

\* INFO(2) and then INFO(1) were processed, and a publish of 2 bytes was
\* refused for the max_payload of the second
ServerInfoLatestWitness ==
    /\ server_info = 1
    /\ \E i, j \in 1..Len(ProcessedSys) :
        i < j /\ ProcessedSys[i] = INFO(2) /\ ProcessedSys[j] = INFO(1)
    /\ ret = [op |-> "publish", len |-> 2, err |-> "MaxPayloadOverflow", val |-> 1]


(***************************************************************************)
(* Verbose mode: the clear of the got-ack flag.                            *)
(***************************************************************************)
\* this step puts the command of a send on the outbound queue
Enqueues == Len(sends') = Len(sends) + 1 /\ outq' # outq

\* this step is the clear (pull_down) that belongs to send i
Clears(i) == sends[i].pc = "queued" /\ sends'[i].pc = "fired"

\* C32: in verbose mode the got-ack flag is cleared before each send, that
\* is before the command is placed on the outbound queue, so the clear of a
\* send never erases a +OK processed after its command was enqueued.
ClearBeforeSend ==
    /\ [][verbose /\ Enqueues => ~got_ack']_vars
    /\ [][\A i \in 1..Len(sends) :
            verbose /\ Clears(i) => ~(got_ack /\ AcksSeen > sends[i].acks)]_vars


(***************************************************************************)
(* Requests: cancellation and completion.                                  *)
(***************************************************************************)
\* the multiplexer reads a MSG for sid in this step
MuxReadsMsgFor(sid) ==
    /\ ~mux_done
    /\ inbound # <<>>
    /\ inbound' = Tail(inbound)
    /\ Head(inbound) \in {MSG(sid, x) : x \in 1..MaxEvents}

\* C33: when the future of a request is dropped before the reply, the inbox
\* SID leaves the subscription table with the next MSG for that SID, and in
\* any case in the end.
CancelDeregisters ==
    /\ [][\A r \in Reqs :
            (req[r].pc = "cancelled" /\ MuxReadsMsgFor(ReqSid(r)))
                => ReqSid(r) \notin InTable']_vars
    /\ \A r \in Reqs : (req[r].pc = "cancelled") ~> (ReqSid(r) \notin InTable)

\* C34: when the future of a request has completed with a message, its
\* inbox SID is not in the subscription table, and a MSG that arrives on
\* that SID afterwards is dropped: it is delivered to nobody.
RequestDeregisters ==
    /\ [](\A r \in Reqs : req[r].pc = "done" => ReqSid(r) \notin InTable)
    /\ [][\A r \in Reqs :
            (req[r].pc = "done" /\ MuxReadsMsgFor(ReqSid(r)))
                => /\ chans' = chans
                   /\ other_q' = other_q
                   /\ req' = req
                   /\ subs_tx' = subs_tx]_vars

\* a request has completed with the first MSG of its inbox SID, and a second
\* MSG the multiplexer read for that SID is on no channel
RequestDeregistersWitness ==
    \E r \in Reqs :
        /\ req[r].pc = "done"
        /\ Len(ArrivedFor(ReqSid(r))) = 2
        /\ chans[req[r].ch].recv = <<ArrivedFor(ReqSid(r))[1]>>
        /\ ~Delivered(ArrivedFor(ReqSid(r))[2])


(***************************************************************************)
(* The connection: which errors start a reconnect.                         *)
(***************************************************************************)
\* C35: only disconnect-class errors start a reconnect.  An I/O error of
\* kind ConnectionReset or ConnectionRefused becomes ServerDisconnected and
\* every other kind IOError; an error of the inner stream other than
\* ServerDisconnected is returned to the caller as it is, no reconnect task
\* is spawned for it and the phase stays Connected.
OnlyDisconnectsReconnect ==
    /\ [](\A k \in IoErrorKinds :
            from_io_error(k) =
                IF k \in {"ConnectionReset", "ConnectionRefused"}
                THEN "ServerDisconnected" ELSE "IOError")
    /\ [](\A h \in Handlers :
            res[h].io = "IOError" => res[h].ret = "IOError" /\ res[h].phase = "Connected")
    /\ [][\A h \in Handlers :
            (res'[h] # res[h] /\ res'[h].io = "IOError") =>
                /\ state = "Connected" /\ state' = "Connected"
                /\ tasks' = tasks
                /\ reco_pc' = "idle"]_vars
    /\ [][Len(tasks') > Len(tasks) =>
            \E h \in Handlers : res[h].ret = "reco" /\ res[h].io = "ServerDisconnected"]_vars

\* after one reconnect, a handler got IOError from the new socket and
\* returned it; the phase is Connected and no second reconnect task exists
OnlyDisconnectsReconnectWitness ==
    \E h \in Handlers :
        /\ res[h].io = "IOError"
        /\ res[h].ret = "IOError"
        /\ res[h].gen = 2
        /\ state = "Connected"
        /\ Len(tasks) = 1


(***************************************************************************)
(* The connection: the locks.                                              *)
(***************************************************************************)
\* the lock task p waits for, "none" if it does not wait
WaitsFor(p) ==
    CASE lpc[p] \in StateWriters /\ ~CanWrite(lock_state) -> "state"
      [] lpc[p] = "inner_write" /\ lock_inner # "free" -> "inner"
      [] OTHER -> "none"

\* who holds lock l
Holders(l) ==
    IF l = "inner" THEN {p \in LockProcs : lock_inner = p}
    ELSE {p \in LockProcs : lock_state.w = p} \cup lock_state.r

\* a handler that finds a lock taken at try_read or try_write returns NotReady
NotReadyWhenTaken ==
    \A p \in Tasks :
        /\ (lpc[p] = "idle" /\ ~CanRead(lock_state) /\ lpc'[p] # "idle")
                => lpc'[p] = "parked"
        /\ (lpc[p] = "try_inner" /\ lock_inner # "free" /\ lpc'[p] # "try_inner")
                => lpc'[p] = "parked"

\* a reconnect task that has its socket gets the write lock of inner
SwapInTheEnd == \A t \in RecoTasks : (lpc[t] = "inner_write") ~> (lpc[t] = "inner_held")

\* C36: no deadlock on the inner-stream lock.  A poll never waits for the
\* lock of inner or for the lock of state: it returns NotReady when either
\* is taken, and it holds no lock of inner once it has returned; so the
\* reconnect task gets the write lock of inner in the end, whatever the
\* interleaving of reader, writer and reconnect task.
PollNeverBlocks ==
    /\ [](\A p \in Tasks : WaitsFor(p) = "none")
    /\ [][NotReadyWhenTaken]_vars
    /\ [](\A p \in Tasks : Outside(p) => lock_inner # p)
    /\ SwapInTheEnd

\* a handler has met a disconnect and spawned a reconnect task, which has
\* its socket and waits for the write lock of inner while the handler, not
\* yet returned, still holds it
PollNeverBlocksWitness ==
    \E p \in Tasks, t \in RecoTasks :
        /\ lpc[p] = "return"
        /\ lock_inner = p
        /\ lpc[t] = "inner_write"


(***************************************************************************)
(* The codec: the cursor.                                                  *)
(***************************************************************************)
\* C37: codec cursor invariant.  Before and after every call of decode,
\* next_index is at most the length of the buffer, and it is 0 right after
\* every call that split a frame off the buffer, whether the frame parsed
\* or not, for any sequence of appends and calls.
CursorInBounds ==
    /\ [](next_index <= Len(codec_buf))
    /\ [](c_res.kind # "none" => c_res.start <= Len(c_res.input))
    /\ [][(c_res' # c_res /\ c_res'.kind \in {"Op", "Err"}) => next_index' = 0]_vars
    /\ [][(c_res' # c_res /\ Len(codec_buf') < Len(codec_buf)) => next_index' = 0]_vars

\* a call that began with the cursor past the start of the buffer split a
\* frame off that failed to parse, and the cursor is 0
CursorInBoundsWitness ==
    /\ c_res.kind = "Err"
    /\ c_res.start > 0
    /\ next_index = 0


(***************************************************************************)
(* Subscriptions: registration.                                            *)
(***************************************************************************)
\* an UNSUB for s was placed on the outbound queue
Unsubscribed(s) == \E i \in 1..Len(sentLog) : sentLog[i].kind = "UNSUB" /\ sentLog[i].sid = s

\* this step queues the MSG at the head of the inbound stream on a channel
\* made for s
QueuedFor(s) ==
    \E c \in 1..Len(chans) :
        /\ chans[c].sid = s
        /\ chans'[c].buf = Append(chans[c].buf, Head(inbound))

\* C38: no lost message at subscribe.  Every MSG for a SID that the
\* multiplexer reads after subscribe has placed the SUB of that SID on the
\* outbound queue (and before any unsubscribe) is queued on the stream of
\* the subscription: there is no window in which the SUB is queued and the
\* sink is not registered.
NoLostMessage ==
    [][\A s \in UserSids :
        (MuxReadsMsgFor(s) /\ Subscribed(s) /\ ~Unsubscribed(s)) => QueuedFor(s)]_vars


Superseded(c) ==
    \E d \in 1..Len(chans) : d > c /\ chans[d].sid = chans[c].sid

\* the step is a for_sid: it made a channel
Registers == Len(chans') = Len(chans) + 1

\* the step queued a message on channel c
Grows(c) == Len(chans'[c].buf) > Len(chans[c].buf)

\* C40: registering a SID that is already in the table replaces its sink.
\* After every for_sid the entry of the SID is the sink of the new channel,
\* with count 0 and no max_count; a message is only ever queued on the
\* channel the table names for its SID, never on a superseded one; the
\* table does not hold the sender of a superseded channel, and its stream
\* ends with nothing left in its queue.
ReplacesSink ==
    /\ [][Registers =>
            subs_tx'[chans'[Len(chans')].sid] =
                [ch |-> Len(chans'), max_count |-> None, count |-> 0]]_vars
    /\ [][\A c \in 1..Len(chans) :
            Grows(c) => ~Superseded(c) /\ subs_tx[chans[c].sid].ch = c]_vars
    /\ [](\A c \in 1..Len(chans) : Superseded(c) => Closed(subs_tx, c))
    /\ [][\A c \in 1..Len(chans) :
            Superseded(c) /\ chans[c].end = Open /\ chans'[c].end # Open
                => chans[c].buf = <<>> /\ chans'[c].end.err = "Ok"]_vars

\* a SID was registered twice: the first stream was given the message
\* queued for it and has ended, the second was given a later message
ReplacesSinkWitness ==
    \E c, d \in 1..Len(chans) :
        /\ c < d
        /\ chans[c].sid = chans[d].sid
        /\ chans[c].recv # <<>>
        /\ chans[c].end.err = "Ok"
        /\ chans[d].recv # <<>>


====
